---- MODULE Spec2Model ----
(***************************************************************************)
(* Route search pipeline of the travel bot: RouteStitcher                  *)
(* (src/src/core/route-stitcher.js), RouteValidator (same file, second     *)
(* half), PriceNormalizer (src/unnamed/part_002), the search-result cache  *)
(* of RedisClient (src/unnamed/part_004) and Helpers                       *)
(* (src/src/utils/helpers.js).                                             *)
(*                                                                         *)
(* Instants are milliseconds since an arbitrary epoch, as in the source    *)
(* (Date arithmetic).  Money is a whole number of currency units; every    *)
(* price of the universe is a multiple of 20 so that the 15% tax is exact. *)
(***************************************************************************)
EXTENDS Integers, Sequences, FiniteSets, TLC

VARIABLES
  pc,            \* per call: position inside findCheapestRoutes
  req,           \* per call: the searchParams object
  result,        \* per call: the list returned (finalRoutes or the cached list)
  err,           \* per call: the message of the error that reached the caller (<<>>: none)
  queries,       \* per call: number of provider queries issued
  outcomes,      \* per call: what the three providers answered
  ttlUsed,       \* per call: TTL passed to set() by cacheSearchResults (0: none)
  recent,        \* calls completed at the current clock value
  cache,         \* Redis: key -> stored entry (NoEntry when the key is absent)
  redisUp,       \* Redis server reachable
  initialized,   \* RedisClient.initialized
  now,           \* wall clock, seconds
  fnIn,          \* pure-function harness: the input list of itineraries
  fnOut,         \* pure-function harness: the output list
  fnOp,          \* pure-function harness: the function applied last
  userStates,    \* BotCommands.userStates for one user: <<>> or <<[step, searchData]>>
  executed,      \* the searchData of the latest executeSearch invocation (<<>>: none)
  keyboards,     \* the inline keyboards the bot has sent to the user
  zset,          \* Redis: the members of the sorted set of the rate-limit key
  zsetExpiry,    \* Redis: the instant the rate-limit key expires (Undefined: no TTL)
  limiter,       \* per caller of rateLimit: position, now, currentRequests
  clockMs,       \* Date.now() in the rate limiter, milliseconds
  grants,        \* instant -> number of calls made at it that were answered allowed
  rateCalls,     \* number of rateLimit calls started
  retry          \* the retryWithBackoff call in progress or finished last

\* the state outside the search pipeline and the harness
chatVars == <<userStates, executed, keyboards>>
rateVars == <<zset, zsetExpiry, limiter, clockMs, grants, rateCalls>>
sideVars == <<chatVars, rateVars, retry>>

vars == <<pc, req, result, err, queries, outcomes, ttlUsed, recent, cache, redisUp, initialized, now, fnIn, fnOut, fnOp, sideVars>>

-----------------------------------------------------------------------------
(* Units and JavaScript values *)

Minute == 60 * 1000
Hour == 60 * 60 * 1000

\* undefined / missing numeric field
Undefined == -1
\* NaN: the time value of an invalid Date and every result computed from it
NaN == -2

Truthy(x) == x # Undefined /\ x # NaN /\ x # 0

\* a - b on Date values (NaN-propagating)
Sub(a, b) == IF a = NaN \/ b = NaN THEN NaN ELSE a - b
\* a < b, a > b with IEEE semantics: any comparison with NaN is false
Lt(a, b) == a # NaN /\ b # NaN /\ a < b
Gt(a, b) == a # NaN /\ b # NaN /\ a > b

Max(a, b) == IF a >= b THEN a ELSE b
Min(a, b) == IF a <= b THEN a ELSE b
\* Math.ceil(a / b) for a >= 0, b > 0
CeilDiv(a, b) == (a + b - 1) \div b

Last(s) == s[Len(s)]

RECURSIVE Concat(_)
Concat(ss) == IF ss = <<>> THEN <<>> ELSE Head(ss) \o Concat(Tail(ss))

Includes(s, x) == \E i \in 1..Len(s) : s[i] = x

-----------------------------------------------------------------------------
(* config/config.js *)

minConnectionTime == 2 * 60 * 60 * 1000
maxConnectionTime == 24 * 60 * 60 * 1000
maxStitchedRoutes == 50
maxRoutesPerSearch == 1000
routeTtl == 7200
cacheEnabled == TRUE
virtualInterlining == TRUE
hubAirports == <<"JNB", "CPT", "ADD", "NBO", "LOS", "ACC", "CAI", "DXB", "DOH", "IST">>

-----------------------------------------------------------------------------
(* RouteValidator *)

minConnectionTimes ==
  [default |-> 60, international |-> 90, large_hub |-> 120,
   self_transfer |-> 180, virtual_interline |-> 240]

maxConnectionTimes == [default |-> 1440, visa_free |-> 720, visa_required |-> 480]

airportCountries ==
  [JNB |-> "ZA", CPT |-> "ZA", DUR |-> "ZA", GRJ |-> "ZA", PLZ |-> "ZA",
   LOS |-> "NG", ABV |-> "NG", PHC |-> "NG",
   NBO |-> "KE", MBA |-> "KE",
   ADD |-> "ET",
   CAI |-> "EG", HRG |-> "EG",
   ACC |-> "GH",
   DXB |-> "AE", AUH |-> "AE",
   DOH |-> "QA",
   LHR |-> "GB", LGW |-> "GB",
   JFK |-> "US", LAX |-> "US",
   CDG |-> "FR", AMS |-> "NL", FRA |-> "DE", IST |-> "TR"]

getCountryFromAirport(airportCode) ==
  IF airportCode \in DOMAIN airportCountries
  THEN airportCountries[airportCode] ELSE "Unknown"

\* /^[A-Z]{3}$/ over the codes of the universe: "" (missing), "jnb" and
\* "JNBX" are the malformed ones
WellFormedCodes ==
  {"JNB", "CPT", "DUR", "GRJ", "PLZ", "LOS", "ABV", "PHC", "NBO", "MBA", "ADD",
   "CAI", "HRG", "ACC", "DXB", "AUH", "DOH", "LHR", "LGW", "STN", "LTN", "JFK",
   "EWR", "LGA", "LAX", "CDG", "ORY", "AMS", "FRA", "IST", "SIN", "HKG", "XXX"}

IsIataCode(code) == code \in WellFormedCodes

\* the bug of rejecting a flight of exactly 20 hours
validateSegment_strict20(segment) ==
  IF segment.from = "" \/ segment.to = ""
     \/ segment.departure = Undefined \/ segment.arrival = Undefined THEN FALSE
  ELSE IF ~IsIataCode(segment.from) \/ ~IsIataCode(segment.to) THEN FALSE
  ELSE IF segment.departure = NaN \/ segment.arrival = NaN THEN FALSE
  ELSE IF segment.departure >= segment.arrival THEN FALSE
  ELSE IF segment.arrival - segment.departure >= 20 * 60 * 60 * 1000 THEN FALSE
  ELSE IF segment.from = segment.to THEN FALSE
  ELSE TRUE

validateSegment(segment) ==
  IF segment.from = "" \/ segment.to = ""
     \/ segment.departure = Undefined \/ segment.arrival = Undefined THEN FALSE
  ELSE IF ~IsIataCode(segment.from) \/ ~IsIataCode(segment.to) THEN FALSE
  ELSE IF segment.departure = NaN \/ segment.arrival = NaN THEN FALSE
  ELSE IF segment.departure >= segment.arrival THEN FALSE
  ELSE IF segment.arrival - segment.departure > 20 * 60 * 60 * 1000 THEN FALSE
  ELSE IF segment.from = segment.to THEN FALSE
  ELSE TRUE

isInternationalConnection(segmentA, segmentB) ==
  getCountryFromAirport(segmentA.from) # getCountryFromAirport(segmentB.to)

largeHubs ==
  {"JNB", "CPT", "LOS", "NBO", "ADD", "CAI", "ACC", "DXB", "DOH",
   "LHR", "CDG", "AMS", "FRA", "IST", "JFK", "LAX", "HKG", "SIN"}

isLargeHub(airportCode) == airportCode \in largeHubs

multiAirportCities ==
  {{"LHR", "LGW", "STN", "LTN"}, {"JFK", "EWR", "LGA"}, {"CDG", "ORY"},
   {"HND", "NRT"}, {"ORD", "MDW"}, {"LAX", "BUR", "SNA", "ONT", "LGB"}}

\* requiresChange of checkAirportChange
checkAirportChange(segmentA, segmentB) ==
  \E airports \in multiAirportCities :
     /\ segmentA.to \in airports
     /\ segmentB.from \in airports
     /\ segmentA.to # segmentB.from

\* the bug of asking whether the connection is international before asking
\* whether the airport is a large hub
connectionTimeVerdict_internationalFirst(segmentA, segmentB, minMs, maxMs, isVirtualInterline) ==
  LET connectionTimeMs == Sub(segmentB.departure, segmentA.arrival)
      requiredMinTimeMs ==
        IF isVirtualInterline THEN minConnectionTimes.virtual_interline * 60 * 1000
        ELSE IF isInternationalConnection(segmentA, segmentB)
             THEN minConnectionTimes.international * 60 * 1000
        ELSE IF isLargeHub(segmentA.to) THEN minConnectionTimes.large_hub * 60 * 1000
        ELSE minConnectionTimes.default * 60 * 1000
      maxTimeMs == IF Truthy(maxMs) THEN maxMs ELSE maxConnectionTimes.default * 60 * 1000
  IN IF Lt(connectionTimeMs, 0) THEN "backward"
     ELSE IF Lt(connectionTimeMs, requiredMinTimeMs) THEN "too_short"
     ELSE IF Gt(connectionTimeMs, maxTimeMs) THEN "too_long"
     ELSE IF checkAirportChange(segmentA, segmentB)
             /\ Lt(connectionTimeMs, 180 * 60 * 1000) THEN "airport_change"
     ELSE "ok"

\* the variant that lets the caller's minimum stand where the table has only
\* its default
connectionTimeVerdict_callerMinimum(segmentA, segmentB, minMs, maxMs, isVirtualInterline) ==
  LET connectionTimeMs == Sub(segmentB.departure, segmentA.arrival)
      requiredMinTimeMs ==
        IF isVirtualInterline THEN minConnectionTimes.virtual_interline * 60 * 1000
        ELSE IF isLargeHub(segmentA.to) THEN minConnectionTimes.large_hub * 60 * 1000
        ELSE IF isInternationalConnection(segmentA, segmentB)
             THEN minConnectionTimes.international * 60 * 1000
        ELSE IF Truthy(minMs) THEN minMs
        ELSE minConnectionTimes.default * 60 * 1000
      maxTimeMs == IF Truthy(maxMs) THEN maxMs ELSE maxConnectionTimes.default * 60 * 1000
  IN IF Lt(connectionTimeMs, 0) THEN "backward"
     ELSE IF Lt(connectionTimeMs, requiredMinTimeMs) THEN "too_short"
     ELSE IF Gt(connectionTimeMs, maxTimeMs) THEN "too_long"
     ELSE IF checkAirportChange(segmentA, segmentB)
             /\ Lt(connectionTimeMs, 180 * 60 * 1000) THEN "airport_change"
     ELSE "ok"

\* validateConnection after the airport match: the reason of the verdict,
\* "ok" when valid
connectionTimeVerdict(segmentA, segmentB, minMs, maxMs, isVirtualInterline) ==
  LET connectionTimeMs == Sub(segmentB.departure, segmentA.arrival)
      requiredMinTimeMs ==
        IF isVirtualInterline THEN minConnectionTimes.virtual_interline * 60 * 1000
        ELSE IF isLargeHub(segmentA.to) THEN minConnectionTimes.large_hub * 60 * 1000
        ELSE IF isInternationalConnection(segmentA, segmentB)
             THEN minConnectionTimes.international * 60 * 1000
        ELSE minConnectionTimes.default * 60 * 1000
      maxTimeMs == IF Truthy(maxMs) THEN maxMs ELSE maxConnectionTimes.default * 60 * 1000
  IN IF Lt(connectionTimeMs, 0) THEN "backward"
     ELSE IF Lt(connectionTimeMs, requiredMinTimeMs) THEN "too_short"
     ELSE IF Gt(connectionTimeMs, maxTimeMs) THEN "too_long"
     ELSE IF checkAirportChange(segmentA, segmentB)
             /\ Lt(connectionTimeMs, 180 * 60 * 1000) THEN "airport_change"
     ELSE "ok"

\* the bug of leaving the airport comparison out
validateConnection_noAirportCheck(segmentA, segmentB, minMs, maxMs, isVirtualInterline) ==
  connectionTimeVerdict(segmentA, segmentB, minMs, maxMs, isVirtualInterline)

validateConnection(segmentA, segmentB, minMs, maxMs, isVirtualInterline) ==
  IF segmentA.to # segmentB.from THEN "airport_mismatch"
  ELSE connectionTimeVerdict(segmentA, segmentB, minMs, maxMs, isVirtualInterline)

visaRequiredTransits == {"US", "UK", "CA", "AU", "NZ"}

\* "ok", or the country named by the reason
validateVisaRequirements(segments) ==
  LET transit == {i \in 1..(Len(segments) - 1) : segments[i].to = segments[i + 1].from}
      flagged == {i \in transit :
                    getCountryFromAirport(segments[i].to) \in visaRequiredTransits}
  IN IF flagged = {} THEN "ok"
     ELSE getCountryFromAirport(
            segments[CHOOSE i \in flagged : \A j \in flagged : i <= j].to)

\* the bug of remembering the origins only (no visitedAirports.add(segment.to))
validateAirportChanges_originsOnly(segments) ==
  ~ \E i \in 1..Len(segments) :
       /\ segments[i].to # Last(segments).to
       /\ \E j \in 1..(i - 1) : segments[j].from = segments[i].to

validateAirportChanges(segments) ==
  ~ \E i \in 1..Len(segments) :
       /\ segments[i].to # Last(segments).to
       /\ \E j \in 1..(i - 1) :
             segments[j].from = segments[i].to \/ segments[j].to = segments[i].to

distances ==
  << <<"JNB", "CPT", 1273>>, <<"JNB", "DUR", 523>>, <<"JNB", "LOS", 4546>>,
     <<"JNB", "NBO", 2985>>, <<"LOS", "ACC", 481>>, <<"LOS", "LHR", 5103>>,
     <<"NBO", "DXB", 3274>>, <<"ACC", "JFK", 8543>>, <<"CPT", "LHR", 9645>>,
     <<"ADD", "IST", 3347>>, <<"CAI", "DXB", 2222>>, <<"DXB", "LHR", 5567>>,
     <<"JNB", "SIN", 8765>>, <<"CPT", "GRJ", 360>> >>

estimateSegmentDistance(from, to) ==
  LET hit == {i \in 1..Len(distances) :
                \/ distances[i][1] = from /\ distances[i][2] = to
                \/ distances[i][1] = to /\ distances[i][2] = from}
  IN IF hit = {} THEN 1000 ELSE distances[CHOOSE i \in hit : TRUE][3]

RECURSIVE estimateTotalDistance(_)
estimateTotalDistance(segments) ==
  IF segments = <<>> THEN 0
  ELSE estimateSegmentDistance(Head(segments).from, Head(segments).to)
       + estimateTotalDistance(Tail(segments))

\* totalDurationHours > 48, and totalDurationHours < (distance / 800 + 1.5 n) * 0.5
\* rewritten over integers: 2 * ms < (distance + 1200 n) * 4500
validateTotalDuration(route) ==
  LET totalDurationMs == Sub(Last(route.segments).arrival, route.segments[1].departure)
      totalDistance == IF Truthy(route.distance) THEN route.distance
                       ELSE estimateTotalDistance(route.segments)
  IN IF route.segments = <<>> THEN FALSE
     ELSE IF Gt(totalDurationMs, 48 * Hour) THEN FALSE
     ELSE IF Lt(2 * totalDurationMs, (totalDistance + 1200 * Len(route.segments)) * 4500)
          THEN FALSE
     ELSE TRUE

\* the bug of leaving step 5, the total duration, out
validateRoute_noDuration(route, minConnectionTimeMs, maxConnectionTimeMs) ==
  IF route.segments = <<>> THEN FALSE
  ELSE /\ \A i \in 1..Len(route.segments) : validateSegment(route.segments[i])
       /\ \A i \in 1..(Len(route.segments) - 1) :
             validateConnection(route.segments[i], route.segments[i + 1],
                                minConnectionTimeMs, maxConnectionTimeMs,
                                route.virtualInterline) = "ok"
       /\ validateVisaRequirements(route.segments) = "ok"
       /\ validateAirportChanges(route.segments)

validateRoute(route, minConnectionTimeMs, maxConnectionTimeMs) ==
  IF route.segments = <<>> THEN FALSE
  ELSE /\ \A i \in 1..Len(route.segments) : validateSegment(route.segments[i])
       /\ \A i \in 1..(Len(route.segments) - 1) :
             validateConnection(route.segments[i], route.segments[i + 1],
                                minConnectionTimeMs, maxConnectionTimeMs,
                                route.virtualInterline) = "ok"
       /\ validateVisaRequirements(route.segments) = "ok"
       /\ validateAirportChanges(route.segments)
       /\ validateTotalDuration(route)

-----------------------------------------------------------------------------
(* Itineraries *)

\* An itinerary as a provider client hands it to the stitcher.  instants
\* tells how departure/arrival are represented: "Date" objects (providers
\* build them with new Date) or "string" (after a JSON round trip).
ProviderRoute(id, segments, totalPrice, currency, totalDuration) ==
  [id |-> id, segments |-> segments, totalPrice |-> totalPrice,
   currency |-> currency, totalDuration |-> totalDuration,
   virtualInterline |-> FALSE, bookingEngine |-> "", source |-> "",
   distance |-> Undefined, originalRoutes |-> <<>>, multiHub |-> FALSE,
   instants |-> "Date",
   totalPriceZAR |-> Undefined, baggageFeeZAR |-> Undefined,
   bookingFeeZAR |-> Undefined, taxAmountZAR |-> Undefined,
   finalPriceZAR |-> Undefined, affiliateLink |-> "none"]

Seg(airline, flightNumber, from, to, departure, arrival) ==
  [airline |-> airline, flightNumber |-> flightNumber, from |-> from, to |-> to,
   departure |-> departure, arrival |-> arrival]

-----------------------------------------------------------------------------
(* Helpers *)

\* base64 of the joined segment strings: a deterministic function of the
\* (airline, flightNumber, from, to) sequence, kept as that sequence
generateRouteId(segments) ==
  Concat([i \in 1..Len(segments) |->
            <<segments[i].airline, segments[i].flightNumber,
              segments[i].from, segments[i].to>>])

\* a field of a JS object: undefined when the object has no such property
Field(obj, name) == IF name \in DOMAIN obj THEN obj[name] ELSE Undefined

\* search:from:to:date:returnDate|oneway:passengers|1:currency|ZAR
generateCacheKey(params) ==
  <<"search", params.from, params.to, params.date,
    IF params.returnDate = "" THEN "oneway" ELSE params.returnDate,
    IF Truthy(params.passengers) THEN params.passengers ELSE 1,
    IF params.currency = "" THEN "ZAR" ELSE params.currency>>

-----------------------------------------------------------------------------
(* RouteStitcher: synthesis *)

\* lines 416-457: the itinerary stitchTwoRoutes builds
StitchedRoute(firstLeg, secondLeg) ==
  LET combinedSegments == firstLeg.segments \o secondLeg.segments
      totalDurationMs == Sub(Last(combinedSegments).arrival,
                             combinedSegments[1].departure)
  IN [id |-> generateRouteId(combinedSegments),
      segments |-> combinedSegments,
      totalPrice |-> (IF Truthy(firstLeg.totalPrice) THEN firstLeg.totalPrice ELSE 0)
                     + (IF Truthy(secondLeg.totalPrice) THEN secondLeg.totalPrice ELSE 0),
      currency |-> IF firstLeg.currency # "" THEN firstLeg.currency ELSE "ZAR",
      totalDuration |-> IF totalDurationMs = NaN THEN NaN
                        ELSE totalDurationMs \div (1000 * 60),
      virtualInterline |-> TRUE,
      bookingEngine |-> "virtual-interline",
      source |-> "stitched",
      distance |-> (IF Truthy(firstLeg.distance) THEN firstLeg.distance ELSE 0)
                   + (IF Truthy(secondLeg.distance) THEN secondLeg.distance ELSE 0),
      originalRoutes |-> <<firstLeg.id, secondLeg.id>>,
      multiHub |-> FALSE,
      instants |-> firstLeg.instants,
      totalPriceZAR |-> Undefined, baggageFeeZAR |-> Undefined,
      bookingFeeZAR |-> Undefined, taxAmountZAR |-> Undefined,
      finalPriceZAR |-> Undefined, affiliateLink |-> "none"]

\* the bug of taking the validator's virtual_interline minimum
stitchTwoRoutes_virtualInterlineMinimum(firstLeg, secondLeg) ==
  IF firstLeg.segments = <<>> \/ secondLeg.segments = <<>> THEN <<>>
  ELSE
    LET connectionTime == Sub(secondLeg.segments[1].departure,
                              Last(firstLeg.segments).arrival)
    IN IF Last(firstLeg.segments).to # secondLeg.segments[1].from THEN <<>>
       ELSE IF Lt(connectionTime, 240 * 60 * 1000)
               \/ Gt(connectionTime, maxConnectionTime) THEN <<>>
       ELSE IF firstLeg.id = secondLeg.id THEN <<>>
       ELSE << StitchedRoute(firstLeg, secondLeg) >>

\* the bug of leaving the airport comparison out
stitchTwoRoutes_noAirportCheck(firstLeg, secondLeg) ==
  IF firstLeg.segments = <<>> \/ secondLeg.segments = <<>> THEN <<>>
  ELSE
    LET connectionTime == Sub(secondLeg.segments[1].departure,
                              Last(firstLeg.segments).arrival)
    IN IF Lt(connectionTime, minConnectionTime)
          \/ Gt(connectionTime, maxConnectionTime) THEN <<>>
       ELSE IF firstLeg.id = secondLeg.id THEN <<>>
       ELSE << StitchedRoute(firstLeg, secondLeg) >>

\* null is <<>>, a stitched itinerary r is <<r>>
stitchTwoRoutes(firstLeg, secondLeg) ==
  IF firstLeg.segments = <<>> \/ secondLeg.segments = <<>> THEN <<>>
  ELSE
    LET lastSegmentFirst == Last(firstLeg.segments)
        firstSegmentSecond == secondLeg.segments[1]
        connectionTime == Sub(firstSegmentSecond.departure, lastSegmentFirst.arrival)
    IN IF lastSegmentFirst.to # firstSegmentSecond.from THEN <<>>
       ELSE IF Lt(connectionTime, minConnectionTime)
               \/ Gt(connectionTime, maxConnectionTime) THEN <<>>
       ELSE IF firstLeg.id = secondLeg.id THEN <<>>
       ELSE << StitchedRoute(firstLeg, secondLeg) >>

\* every segment.from / segment.to occurrence, in scan order, that is neither
\* the origin nor the destination of the search
AirportOccurrences(routes, from, to) ==
  LET perSeg(s) == (IF s.from # "" /\ s.from # from /\ s.from # to THEN <<s.from>> ELSE <<>>)
                   \o (IF s.to # "" /\ s.to # from /\ s.to # to THEN <<s.to>> ELSE <<>>)
      perRoute(r) == Concat([i \in 1..Len(r.segments) |-> perSeg(r.segments[i])])
  IN Concat([k \in 1..Len(routes) |-> perRoute(routes[k])])

\* first occurrences, in order (key order of a JS object / Set)
Distinct(s) ==
  SelectSeq([i \in 1..Len(s) |-> IF \E j \in 1..(i - 1) : s[j] = s[i] THEN "" ELSE s[i]],
            LAMBDA x : x # "")

Count(s, x) == Cardinality({i \in 1..Len(s) : s[i] = x})

identifyHubAirports(routes, from, to) ==
  LET occ == AirportOccurrences(routes, from, to)
      keys == Distinct(occ)
      n == Len(keys)
      freq(i) == Count(occ, keys[i])
      \* stable sort, descending frequency
      rank(i) == 1 + Cardinality({j \in 1..n :
                        freq(j) > freq(i) \/ (freq(j) = freq(i) /\ j < i)})
      sortedAirports == [p \in 1..n |-> keys[CHOOSE i \in 1..n : rank(i) = p]]
      hubs == SelectSeq(sortedAirports,
                LAMBDA a : Includes(hubAirports, a) \/ Count(occ, a) >= 3)
  IN SubSeq(hubs, 1, Min(Len(hubs), 10))

\* the two buckets of one hub
groupRoutesByHub(routes, hub, from, to) ==
  LET ok == SelectSeq(routes, LAMBDA r : r.segments # <<>>)
  IN [toHub |-> SelectSeq(ok, LAMBDA r : r.segments[1].from = from /\ Last(r.segments).to = hub),
      fromHub |-> SelectSeq(ok, LAMBDA r : r.segments[1].from = hub /\ Last(r.segments).to = to)]

generateCombinations(routesA, routesB, maxCombinations) ==
  IF routesA = <<>> \/ routesB = <<>> THEN <<>>
  ELSE
    LET maxPerRoute == CeilDiv(maxCombinations, Max(Len(routesA), Len(routesB)))
        na == Min(Len(routesA), maxPerRoute)
        nb == Min(Len(routesB), maxPerRoute)
    IN [k \in 1..(na * nb) |->
          [firstLeg |-> routesA[((k - 1) \div nb) + 1],
           secondLeg |-> routesB[((k - 1) % nb) + 1]]]

\* the partialRoute object of generateMultiHubRoutes: only id, airlines,
\* segments, totalPrice, currency and totalDuration are copied
PartialRoute(partial) ==
  [partial EXCEPT !.virtualInterline = FALSE, !.bookingEngine = "", !.source = "",
                  !.distance = Undefined, !.originalRoutes = <<>>]

generateMultiHubRoutes(routes, from, to) ==
  LET allAirports ==
        Distinct(Concat([k \in 1..Len(routes) |->
                   Concat([i \in 1..Len(routes[k].segments) |->
                             <<routes[k].segments[i].from, routes[k].segments[i].to>>])]))
      airports == SelectSeq(allAirports, LAMBDA a : a # from /\ a # to)
      n == Min(Len(airports), 5)
      legs(a, b) == SelectSeq(routes,
                      LAMBDA r : r.segments[1].from = a /\ Last(r.segments).to = b)
      forPair(hub1, hub2) ==
        LET leg1Routes == legs(from, hub1)
            leg2Routes == legs(hub1, hub2)
            leg3Routes == legs(hub2, to)
            m == Min(3, Min(Len(leg1Routes), Min(Len(leg2Routes), Len(leg3Routes))))
            combo(k) ==
              LET a == ((k - 1) \div (m * m)) + 1
                  b == (((k - 1) \div m) % m) + 1
                  c == ((k - 1) % m) + 1
                  partial == stitchTwoRoutes(leg1Routes[a], leg2Routes[b])
              IN IF partial = <<>> THEN <<>>
                 ELSE LET final == stitchTwoRoutes(PartialRoute(partial[1]), leg3Routes[c])
                      IN IF final = <<>> THEN <<>>
                         ELSE << [final[1] EXCEPT !.multiHub = TRUE] >>
        IN Concat([k \in 1..(m * m * m) |-> combo(k)])
      all == Concat([k \in 1..(n * n) |->
                LET i == ((k - 1) \div n) + 1
                    j == ((k - 1) % n) + 1
                IN IF i = j THEN <<>> ELSE forPair(airports[i], airports[j])])
  IN \* route.segments[0].from of an empty segment list throws inside the
     \* try: the loop ends with what was collected, which is nothing
     IF \E k \in 1..Len(routes) : routes[k].segments = <<>> THEN <<>>
     ELSE SubSeq(all, 1, Min(Len(all), 10))

generateStitchedRoutes(directRoutes, from, to) ==
  LET hubs == identifyHubAirports(directRoutes, from, to)
      perHub(hub) ==
        LET hubRoutes == groupRoutesByHub(directRoutes, hub, from, to)
            combinations == generateCombinations(hubRoutes.toHub, hubRoutes.fromHub,
                                                 maxStitchedRoutes)
        IN Concat([k \in 1..Len(combinations) |->
                     stitchTwoRoutes(combinations[k].firstLeg, combinations[k].secondLeg)])
  IN Concat([h \in 1..Len(hubs) |-> perHub(hubs[h])])
     \o generateMultiHubRoutes(directRoutes, from, to)

-----------------------------------------------------------------------------
(* RouteStitcher: deduplication *)

\* The signature string of a route.  With segments it is the joined
\* (airline, flightNumber, from, to) strings; without, route.id, or a
\* Math.random() string that no other signature equals (rand is the position
\* of the draw).  Price and duration are appended in every case.
Signature(route, i) ==
  [segs |-> [k \in 1..Len(route.segments) |->
               <<route.segments[k].airline, route.segments[k].flightNumber,
                 route.segments[k].from, route.segments[k].to>>],
   id |-> IF route.segments = <<>> THEN route.id ELSE <<>>,
   rand |-> IF route.segments = <<>> /\ route.id = <<>> THEN i ELSE 0,
   price |-> IF Truthy(route.totalPrice) THEN route.totalPrice ELSE 0,
   duration |-> IF Truthy(route.totalDuration) THEN route.totalDuration ELSE 0]

RECURSIVE dedupLoop(_, _, _, _)
dedupLoop(routes, i, seenSigs, uniqueRoutes) ==
  IF i > Len(routes) THEN uniqueRoutes
  ELSE LET signature == Signature(routes[i], i)
       IN IF signature \notin seenSigs
          THEN dedupLoop(routes, i + 1, seenSigs \cup {signature},
                         Append(uniqueRoutes, routes[i]))
          ELSE dedupLoop(routes, i + 1, seenSigs, uniqueRoutes)

\* the bug of uniqueRoutes.unshift(route): first-seen routes come out reversed
deduplicateRoutes_unshift(routes) ==
  LET uniqueRoutes == dedupLoop(routes, 1, {}, <<>>)
      n == Len(uniqueRoutes)
  IN [i \in 1..n |-> uniqueRoutes[n + 1 - i]]

deduplicateRoutes(routes) == dedupLoop(routes, 1, {}, <<>>)

-----------------------------------------------------------------------------
(* PriceNormalizer and the exchange-rate client *)

defaultCurrency == "ZAR"
baggageFees == [economy |-> 20, premium_economy |-> 30, business |-> 40, first |-> 50]
bookingFees ==
  ("kiwi" :> 5) @@ ("travelpayouts" :> 3) @@ ("skyscanner" :> 4)
  @@ ("virtual-interline" :> 10)

\* ExchangeRateAPI.convert: rate is rates.rates[toCurrency] as fetched, 0 when
\* the fetch failed or the table has no such rate (the amount comes back as is)
convert(amount, fromCurrency, toCurrency, rate) ==
  IF fromCurrency = toCurrency THEN amount
  ELSE IF rate # 0 THEN (IF amount = Undefined \/ amount = NaN THEN NaN ELSE amount * rate)
  ELSE amount

calculateBaggageFee(bagsCount, cabinClass) ==
  LET baseFee == IF cabinClass \in DOMAIN baggageFees
                 THEN baggageFees[cabinClass] ELSE baggageFees.economy
  IN IF bagsCount <= 0 THEN 0
     ELSE IF cabinClass = "economy" THEN bagsCount * baseFee
     ELSE IF cabinClass = "premium_economy" THEN Max(0, bagsCount - 1) * baseFee
     ELSE Max(0, bagsCount - 2) * baseFee

calculateBookingFee(bookingEngine, isVirtualInterline) ==
  IF isVirtualInterline THEN bookingFees["virtual-interline"]
  ELSE IF bookingEngine \in DOMAIN bookingFees THEN bookingFees[bookingEngine]
  ELSE bookingFees["travelpayouts"]

\* totalPriceZAR * 0.15; exact on the multiples of 20 of the universe
TaxAmount(totalPriceZAR) ==
  IF totalPriceZAR = Undefined \/ totalPriceZAR = NaN THEN NaN
  ELSE (totalPriceZAR * 15) \div 100

\* userPreferences as null: the default {} stands in for undefined only
NullPreferences == [null |-> TRUE]

\* Reading userPreferences.bags of null throws inside the try; the catch
\* returns the route it was given.
addAllFees(route, userPreferences, rate) ==
  IF userPreferences = NullPreferences THEN route ELSE
  LET totalPriceZAR == IF route.currency # defaultCurrency
                       THEN convert(route.totalPrice, route.currency, defaultCurrency, rate)
                       ELSE route.totalPrice
      baggageFee == calculateBaggageFee(
                      IF Truthy(userPreferences.bags) THEN userPreferences.bags ELSE 0,
                      IF userPreferences.cabinClass = "" THEN "economy"
                      ELSE userPreferences.cabinClass)
      bookingFee == calculateBookingFee(route.bookingEngine, route.virtualInterline)
      tax == TaxAmount(totalPriceZAR)
  IN [route EXCEPT !.totalPriceZAR = totalPriceZAR,
                   !.baggageFeeZAR = baggageFee,
                   !.bookingFeeZAR = bookingFee,
                   !.taxAmountZAR = tax,
                   !.finalPriceZAR = IF tax = NaN THEN NaN
                                     ELSE totalPriceZAR + baggageFee + bookingFee + tax]

\* the bug of answering null from the catch of addAllFees: normalizeRoutes
\* pushes no null, so the itinerary is gone
normalizeRoutes_nullOnThrow(routes, userPreferences, rate) ==
  IF userPreferences = NullPreferences THEN <<>>
  ELSE [i \in 1..Len(routes) |-> addAllFees(routes[i], userPreferences, rate)]

normalizeRoutes(routes, userPreferences, rate) ==
  [i \in 1..Len(routes) |-> addAllFees(routes[i], userPreferences, rate)]

\* a.finalPriceZAR || a.totalPriceZAR || a.totalPrice || 0
SortPrice(a) ==
  IF Truthy(a.finalPriceZAR) THEN a.finalPriceZAR
  ELSE IF Truthy(a.totalPriceZAR) THEN a.totalPriceZAR
  ELSE IF Truthy(a.totalPrice) THEN a.totalPrice
  ELSE 0

\* the bug of comparing the base price only
sortByPrice_basePrice(routes) ==
  LET n == Len(routes)
      base(a) == IF Truthy(a.totalPrice) THEN a.totalPrice ELSE 0
      rank(i) == 1 + Cardinality({j \in 1..n :
                        \/ base(routes[j]) < base(routes[i])
                        \/ base(routes[j]) = base(routes[i]) /\ j < i})
  IN [p \in 1..n |-> routes[CHOOSE i \in 1..n : rank(i) = p]]

\* [...routes].sort((a, b) => priceA - priceB): Array.prototype.sort is a
\* stable sort by the comparator
sortByPrice(routes) ==
  LET n == Len(routes)
      rank(i) == 1 + Cardinality({j \in 1..n :
                        \/ SortPrice(routes[j]) < SortPrice(routes[i])
                        \/ SortPrice(routes[j]) = SortPrice(routes[i]) /\ j < i})
  IN [p \in 1..n |-> routes[CHOOSE i \in 1..n : rank(i) = p]]

-----------------------------------------------------------------------------
(* RouteStitcher: links *)

addAffiliateLinks(routes) ==
  [i \in 1..Len(routes) |->
     [routes[i] EXCEPT !.affiliateLink =
        IF routes[i].virtualInterline THEN "kiwi-multi"
        ELSE IF routes[i].bookingEngine \in {"kiwi", "travelpayouts", "skyscanner"}
             THEN routes[i].bookingEngine
        ELSE "travelpayouts"]]

-----------------------------------------------------------------------------
(* RedisClient: search-result cache *)

\* JSON.stringify then JSON.parse of a result list: Date objects come back
\* as ISO strings, NaN comes back as null (a missing amount)
JsonNumber(x) == IF x = NaN THEN Undefined ELSE x

JsonRoundTrip(results) ==
  [i \in 1..Len(results) |->
     [results[i] EXCEPT !.instants = "string",
                        !.totalDuration = JsonNumber(@),
                        !.totalPriceZAR = JsonNumber(@),
                        !.taxAmountZAR = JsonNumber(@),
                        !.finalPriceZAR = JsonNumber(@)]]

SecondsPerDay == 24 * 60 * 60

\* Math.ceil((new Date(travelDate) - new Date()) / 86400000); travelDate is a
\* day number, nowSec the clock
daysUntilTravel(travelDate, nowSec) ==
  IF travelDate = Undefined THEN NaN
  ELSE LET diff == travelDate * SecondsPerDay - nowSec
       IN IF diff >= 0 THEN CeilDiv(diff, SecondsPerDay)
          ELSE 0 - ((0 - diff) \div SecondsPerDay)

Le(a, b) == a # NaN /\ b # NaN /\ a <= b

\* the TTL cacheSearchResults passes to set()
searchResultsTtl(searchParams, nowSec) ==
  LET travelDate == Field(searchParams, "travelDate")
      days == daysUntilTravel(travelDate, nowSec)
  IN IF Le(days, 1) THEN 1800
     ELSE IF Le(days, 7) THEN 3600
     ELSE IF Le(days, 30) THEN 7200
     ELSE routeTtl

\* the value cacheSearchResults stores, as it reads back from Redis
cacheSearchResults(results, searchParams, nowSec) ==
  [results |-> JsonRoundTrip(results),
   expiresAt |-> nowSec + searchResultsTtl(searchParams, nowSec)]

NoEntry == [results |-> <<>>, expiresAt |-> 0]

\* the bug of comparing expiresAt the wrong way round
getCachedSearchResults_inverted(store, key, nowSec, reachable) ==
  IF ~reachable THEN <<>>
  ELSE IF key \notin DOMAIN store THEN <<>>
  ELSE IF store[key] = NoEntry THEN <<>>
  ELSE IF store[key].expiresAt > nowSec THEN <<>>
  ELSE << store[key].results >>

\* getCachedSearchResults once the client is connected: the stored results
\* as <<results>>, or <<>> for null.  reachable is whether client.get
\* answers; SETEX makes Redis drop the key ttl seconds after the write.
getCachedSearchResults(store, key, nowSec, reachable) ==
  IF ~reachable THEN <<>>
  ELSE IF key \notin DOMAIN store THEN <<>>
  ELSE IF store[key] = NoEntry THEN <<>>
  ELSE IF store[key].expiresAt <= nowSec THEN <<>>
  ELSE << store[key].results >>

-----------------------------------------------------------------------------
(* RouteStitcher: provider fan-out and the pipeline *)

\* A provider's answer to one query: ok with the itineraries, or a failure
\* (error or timeout)
Answer(routes) == [ok |-> TRUE, routes |-> routes]
Failure == [ok |-> FALSE, routes |-> <<>>]

Tagged(routes, engine) ==
  [i \in 1..Len(routes) |-> [routes[i] EXCEPT !.source = engine, !.bookingEngine = engine]]

\* each wrapper catches the provider's error and resolves with []
searchKiwi(answer) ==
  [status |-> "fulfilled",
   value |-> IF answer.ok THEN Tagged(answer.routes, "kiwi") ELSE <<>>]

searchTravelpayouts(answer) ==
  [status |-> "fulfilled",
   value |-> IF answer.ok THEN Tagged(answer.routes, "travelpayouts") ELSE <<>>]

searchSkyscanner(answer) ==
  [status |-> "fulfilled",
   value |-> IF answer.ok THEN Tagged(answer.routes, "skyscanner") ELSE <<>>]

\* the bug of giving the whole search up when one provider brought nothing
allDirectRoutes_allOrNothing(kiwiResults, travelpayoutsResults, skyscannerResults) ==
  IF kiwiResults.value = <<>> \/ travelpayoutsResults.value = <<>>
     \/ skyscannerResults.value = <<>>
  THEN <<>>
  ELSE kiwiResults.value \o travelpayoutsResults.value \o skyscannerResults.value

\* step 2 of findCheapestRoutes: allDirectRoutes out of the settled promises
allDirectRoutes(kiwiResults, travelpayoutsResults, skyscannerResults) ==
  (IF kiwiResults.status = "fulfilled" THEN kiwiResults.value ELSE <<>>)
  \o (IF travelpayoutsResults.status = "fulfilled" THEN travelpayoutsResults.value ELSE <<>>)
  \o (IF skyscannerResults.status = "fulfilled" THEN skyscannerResults.value ELSE <<>>)

\* lines 29-39: the defaults of the destructured searchParams ("" and
\* Undefined stand for a property the caller left out)
searchDefaults(searchParams) ==
  [searchParams EXCEPT
     !.passengers = IF @ = Undefined THEN 1 ELSE @,
     !.bags = IF @ = Undefined THEN 0 ELSE @,
     !.cabinClass = IF @ = "" THEN "M" ELSE @,
     !.currency = IF @ = "" THEN "ZAR" ELSE @,
     !.tripType = IF @ = "" THEN "oneway" ELSE @]

\* steps 3 to 9 of findCheapestRoutes: finalRoutes out of allDirectRoutes
finalRoutes(searchParams, directRoutes, rate) ==
  LET stitchedRoutes ==
        IF virtualInterlining /\ Len(directRoutes) > 0
        THEN generateStitchedRoutes(directRoutes, searchParams.from, searchParams.to)
        ELSE <<>>
      unique == deduplicateRoutes(directRoutes \o stitchedRoutes)
      valid == SelectSeq(unique,
                 LAMBDA route : validateRoute(route, minConnectionTime, maxConnectionTime))
      normalizedRoutes ==
        normalizeRoutes(valid,
          [passengers |-> searchParams.passengers, bags |-> searchParams.bags,
           cabinClass |-> searchParams.cabinClass], rate)
      sortedRoutes == sortByPrice(normalizedRoutes)
      topRoutes == SubSeq(sortedRoutes, 1, Min(Len(sortedRoutes), maxRoutesPerSearch))
  IN addAffiliateLinks(topRoutes)

-----------------------------------------------------------------------------
(* The universe: itineraries the providers answer with, and the requests *)

MaxTicks == 1
TickSeconds == 2 * 60 * 60
UsdZarRate == 18

JNB_CPT == ProviderRoute(<<"k1">>, <<Seg("SA", "301", "JNB", "CPT", 8 * Hour, 10 * Hour)>>,
                         3000, "ZAR", 120)
\* the same flight as sold by another provider
JNB_CPT_2 == ProviderRoute(<<"s1">>, <<Seg("SA", "301", "JNB", "CPT", 8 * Hour, 10 * Hour)>>,
                           3000, "ZAR", 120)
JNB_CPT_USD == ProviderRoute(<<"k2">>, <<Seg("BA", "6401", "JNB", "CPT", 9 * Hour, 11 * Hour)>>,
                             200, "USD", 120)
JNB_ADD == ProviderRoute(<<"t1">>, <<Seg("ET", "808", "JNB", "ADD", 6 * Hour, 11 * Hour)>>,
                         2000, "ZAR", 300)
\* five hours after JNB_ADD lands
ADD_CPT == ProviderRoute(<<"t2">>, <<Seg("ET", "847", "ADD", "CPT", 16 * Hour, 22 * Hour)>>,
                         1500, "ZAR", 360)
\* two hours after JNB_ADD lands
ADD_CPT_EARLY == ProviderRoute(<<"t3">>, <<Seg("ET", "845", "ADD", "CPT", 13 * Hour, 19 * Hour)>>,
                               1400, "ZAR", 360)
\* a through itinerary whose second segment leaves from another airport
BROKEN == ProviderRoute(<<"s2">>,
            <<Seg("KQ", "761", "JNB", "NBO", 6 * Hour, 10 * Hour),
              Seg("ET", "847", "ADD", "CPT", 16 * Hour, 22 * Hour)>>,
            2500, "ZAR", 960)

KiwiAnswers == {Failure, Answer(<<JNB_CPT>>)}
TravelpayoutsAnswers ==
  {Failure, Answer(<<JNB_ADD, ADD_CPT>>),
   Answer(<<JNB_CPT_2, JNB_ADD, ADD_CPT_EARLY, BROKEN>>)}
SkyscannerAnswers == {Failure, Answer(<<>>)}

TravelDays == {1, 40}
BagChoices == {0}

\* searchParams as the callers build it: there is no travelDate property
Requests ==
  {[from |-> "JNB", to |-> "CPT", date |-> d, returnDate |-> "", passengers |-> 1,
    bags |-> b, cabinClass |-> "M", currency |-> "ZAR", tripType |-> "oneway"] :
     d \in TravelDays, b \in BagChoices}

NoRequest ==
  [from |-> "", to |-> "", date |-> 0, returnDate |-> "", passengers |-> 0,
   bags |-> 0, cabinClass |-> "", currency |-> "", tripType |-> ""]

NoOutcome == [kiwi |-> Failure, travelpayouts |-> Failure, skyscanner |-> Failure, rate |-> 0]

CacheKeys == {generateCacheKey(r) : r \in Requests}

Calls == {1, 2}

NoError == <<>>

\* the callers of rateLimit and the instants of its clock
MaxRateClock == 3
RateCallers == {1, 2}
RateInstants == 0..MaxRateClock
LimiterIdle == [pc |-> "idle", now |-> 0, currentRequests |-> 0]

\* no retryWithBackoff call yet.  history holds the outcome of every
\* invocation of fn, delays the argument of every sleep, value and error what
\* the call returned or threw.
RetryIdle ==
  [pc |-> "idle", maxRetries |-> 0, baseDelay |-> 0, attempt |-> 0,
   history |-> <<>>, delays |-> <<>>, value |-> "", error |-> ""]

-----------------------------------------------------------------------------
(* findCheapestRoutes, one action per stretch between awaits that touch the
   cache or the providers *)

PipelineInit ==
  /\ pc = [c \in Calls |-> "idle"]
  /\ req = [c \in Calls |-> NoRequest]
  /\ result = [c \in Calls |-> <<>>]
  /\ err = [c \in Calls |-> NoError]
  /\ queries = [c \in Calls |-> 0]
  /\ outcomes = [c \in Calls |-> NoOutcome]
  /\ ttlUsed = [c \in Calls |-> 0]
  /\ recent = {}
  /\ cache = [k \in CacheKeys |-> NoEntry]
  /\ redisUp = TRUE
  /\ initialized = FALSE
  /\ now = 0
  /\ userStates = <<>>
  /\ executed = <<>>
  /\ keyboards = {}
  /\ zset = {}
  /\ zsetExpiry = Undefined
  /\ limiter = [c \in RateCallers |-> LimiterIdle]
  /\ clockMs = 0
  /\ grants = [t \in RateInstants |-> 0]
  /\ rateCalls = 0
  /\ retry = RetryIdle

HarnessIdle ==
  /\ fnIn = <<>>
  /\ fnOut = <<>>
  /\ fnOp = "none"

Init == PipelineInit /\ HarnessIdle

\* lines 28-51: cache key, then getCachedSearchResults when the cache is on.
\* RedisClient.initialize runs outside every try: a refused connection
\* rejects getCachedSearchResults and findCheapestRoutes with it.
CacheLookup(c, r) ==
  /\ pc[c] = "idle"
  /\ \A d \in Calls : d < c => pc[d] # "idle"
  /\ req' = [req EXCEPT ![c] = r]
  /\ LET key == generateCacheKey(r)
         cached == getCachedSearchResults(cache, key, now, redisUp)
     IN IF cacheEnabled /\ ~initialized /\ ~redisUp
        THEN /\ pc' = [pc EXCEPT ![c] = "failed"]
             /\ err' = [err EXCEPT ![c] = <<"connect ECONNREFUSED">>]
             /\ recent' = recent \cup {c}
             /\ UNCHANGED <<result, initialized, cache>>
        ELSE IF cacheEnabled /\ cached # <<>>
        THEN /\ pc' = [pc EXCEPT ![c] = "done"]
             /\ result' = [result EXCEPT ![c] = cached[1]]
             /\ initialized' = TRUE
             /\ recent' = recent \cup {c}
             /\ UNCHANGED <<err, cache>>
        ELSE /\ pc' = [pc EXCEPT ![c] = "fanout"]
             /\ initialized' = (cacheEnabled \/ initialized)
             \* an entry past expiresAt is deleted
             /\ cache' = IF cacheEnabled /\ redisUp /\ cache[key].expiresAt <= now
                         THEN [cache EXCEPT ![key] = NoEntry] ELSE cache
             /\ UNCHANGED <<result, err, recent>>
  /\ UNCHANGED <<queries, outcomes, ttlUsed, redisUp, now, fnIn, fnOut, fnOp, sideVars>>

HasForeignCurrency(answers) ==
  \E a \in answers : \E i \in 1..Len(a.routes) : a.routes[i].currency # defaultCurrency

\* lines 62-127: the three provider queries, fan-in, and the synchronous
\* stages down to finalRoutes
Search(c) ==
  /\ pc[c] = "fanout"
  /\ \E k \in KiwiAnswers, t \in TravelpayoutsAnswers, s \in SkyscannerAnswers :
       \E rate \in (IF HasForeignCurrency({k, t, s}) THEN {0, UsdZarRate} ELSE {UsdZarRate}) :
          /\ outcomes' = [outcomes EXCEPT ![c] =
                            [kiwi |-> k, travelpayouts |-> t, skyscanner |-> s, rate |-> rate]]
          /\ result' = [result EXCEPT ![c] =
                          finalRoutes(req[c],
                            allDirectRoutes(searchKiwi(k), searchTravelpayouts(t),
                                            searchSkyscanner(s)),
                            rate)]
  /\ queries' = [queries EXCEPT ![c] = @ + 3]
  /\ pc' = [pc EXCEPT ![c] = "populate"]
  /\ UNCHANGED <<req, err, ttlUsed, recent, cache, redisUp, initialized,
                 now, fnIn, fnOut, fnOp, sideVars>>

\* the variant that keeps the entry of whoever wrote first (SET ... NX)
CachePopulate_firstWriteWins(c) ==
  /\ pc[c] = "populate"
  /\ LET key == generateCacheKey(req[c])
     IN IF cacheEnabled /\ Len(result[c]) > 0 /\ ~initialized /\ ~redisUp
        THEN /\ pc' = [pc EXCEPT ![c] = "failed"]
             /\ err' = [err EXCEPT ![c] = <<"Search failed: ", "connect ECONNREFUSED">>]
             /\ result' = [result EXCEPT ![c] = <<>>]
             /\ UNCHANGED <<cache, ttlUsed, initialized>>
        ELSE IF cacheEnabled /\ Len(result[c]) > 0 /\ redisUp
        THEN /\ pc' = [pc EXCEPT ![c] = "done"]
             /\ cache' = IF cache[key] = NoEntry \/ cache[key].expiresAt <= now
                         THEN [cache EXCEPT ![key] = cacheSearchResults(result[c], req[c], now)]
                         ELSE cache
             /\ ttlUsed' = [ttlUsed EXCEPT ![c] = searchResultsTtl(req[c], now)]
             /\ initialized' = TRUE
             /\ UNCHANGED <<err, result>>
        ELSE /\ pc' = [pc EXCEPT ![c] = "done"]
             /\ UNCHANGED <<cache, ttlUsed, initialized, err, result>>
  /\ recent' = recent \cup {c}
  /\ UNCHANGED <<req, queries, outcomes, redisUp, now, fnIn, fnOut, fnOp, sideVars>>

\* lines 129-152: cacheSearchResults for a non-empty list, then return.
\* cacheSearchResults catches a failed set() and answers false, but its
\* initialize() is outside its try: a refused connection lands in the catch
\* of findCheapestRoutes.
CachePopulate(c) ==
  /\ pc[c] = "populate"
  /\ LET key == generateCacheKey(req[c])
     IN IF cacheEnabled /\ Len(result[c]) > 0 /\ ~initialized /\ ~redisUp
        THEN /\ pc' = [pc EXCEPT ![c] = "failed"]
             /\ err' = [err EXCEPT ![c] = <<"Search failed: ", "connect ECONNREFUSED">>]
             /\ result' = [result EXCEPT ![c] = <<>>]
             /\ UNCHANGED <<cache, ttlUsed, initialized>>
        ELSE IF cacheEnabled /\ Len(result[c]) > 0 /\ redisUp
        THEN /\ pc' = [pc EXCEPT ![c] = "done"]
             /\ cache' = [cache EXCEPT ![key] = cacheSearchResults(result[c], req[c], now)]
             /\ ttlUsed' = [ttlUsed EXCEPT ![c] = searchResultsTtl(req[c], now)]
             /\ initialized' = TRUE
             /\ UNCHANGED <<err, result>>
        ELSE /\ pc' = [pc EXCEPT ![c] = "done"]
             /\ UNCHANGED <<cache, ttlUsed, initialized, err, result>>
  /\ recent' = recent \cup {c}
  /\ UNCHANGED <<req, queries, outcomes, redisUp, now, fnIn, fnOut, fnOp, sideVars>>

\* the Redis server becomes unreachable; the client may see its connection
\* end ('end' handler: initialized = false)
RedisFails ==
  /\ redisUp
  /\ redisUp' = FALSE
  /\ initialized' \in {initialized, FALSE}
  /\ UNCHANGED <<pc, req, result, err, queries, outcomes, ttlUsed, recent,
                 cache, now, fnIn, fnOut, fnOp, sideVars>>

RedisRecovers ==
  /\ ~redisUp
  /\ redisUp' = TRUE
  /\ UNCHANGED <<pc, req, result, err, queries, outcomes, ttlUsed, recent,
                 cache, initialized, now, fnIn, fnOut, fnOp, sideVars>>

Tick ==
  /\ now < MaxTicks * TickSeconds
  /\ now' = now + TickSeconds
  /\ recent' = {}
  /\ UNCHANGED <<pc, req, result, err, queries, outcomes, ttlUsed,
                 cache, redisUp, initialized, fnIn, fnOut, fnOp, sideVars>>

Next ==
  \/ \E c \in Calls, r \in Requests : CacheLookup(c, r)
  \/ \E c \in Calls : Search(c)
  \/ \E c \in Calls : CachePopulate(c)
  \/ RedisFails
  \/ RedisRecovers
  \/ Tick

Spec == Init /\ [][Next]_vars

-----------------------------------------------------------------------------
(* Two searches for the same journey that differ in bags, cabin class and
   trip type, with Redis reachable *)

ShareBags == {0, 1}
ShareCabins == {"M", "economy"}
ShareTripTypes == {"oneway", "return"}

ShareRequests ==
  {[from |-> "JNB", to |-> "CPT", date |-> 40, returnDate |-> "", passengers |-> 1,
    bags |-> b, cabinClass |-> cab, currency |-> "ZAR", tripType |-> t] :
     b \in ShareBags, cab \in ShareCabins, t \in ShareTripTypes}

NextShare ==
  \/ \E c \in Calls, r \in ShareRequests : CacheLookup(c, r)
  \/ \E c \in Calls : Search(c)
  \/ \E c \in Calls : CachePopulate(c)

SpecShare == Init /\ [][NextShare]_vars

-----------------------------------------------------------------------------
(* The stages applied one at a time to lists of itineraries of any shape *)

MaxListLen == 3

\* minutes between the landing of JNB_ADD and the departure of the onward leg
GapMinutes == {0 - 60, 119, 120, 1440, 1441}

Onward(gap) ==
  ProviderRoute(<<"b1">>,
    <<Seg("ET", "847", "ADD", "CPT", 11 * Hour + gap * Minute, 17 * Hour + gap * Minute)>>,
    1500, "ZAR", 360)

\* an onward leg carrying the id of the first leg
ONWARD_SAME_ID == [Onward(300) EXCEPT !.id = JNB_ADD.id]
\* an onward leg out of another airport
NBO_CPT == ProviderRoute(<<"b2">>, <<Seg("KQ", "784", "NBO", "CPT", 16 * Hour, 22 * Hour)>>,
                         1500, "ZAR", 360)
\* a through itinerary sold by one provider
THROUGH == ProviderRoute(<<"s3">>,
             <<Seg("ET", "808", "JNB", "ADD", 6 * Hour, 11 * Hour),
               Seg("ET", "845", "ADD", "CPT", 13 * Hour, 19 * Hour)>>,
             3400, "ZAR", 780)
\* an itinerary priced already, its final price below every base price
PRICED == [JNB_CPT EXCEPT !.id = <<"p1">>, !.totalPrice = 5000, !.finalPriceZAR = 100]
\* an itinerary without segments and without an id
NOSEG_ANON == ProviderRoute(<<>>, <<>>, 1000, "ZAR", 60)
\* the first leg as a provider quotes it in dollars
JNB_ADD_USD == [JNB_ADD EXCEPT !.id = <<"u1">>, !.totalPrice = 100, !.currency = "USD"]

HarnessRoutes ==
  {JNB_ADD, JNB_ADD_USD, ONWARD_SAME_ID, NBO_CPT, THROUGH, BROKEN, JNB_CPT, JNB_CPT_2,
   JNB_CPT_USD, PRICED, NOSEG_ANON}
  \cup {Onward(g) : g \in GapMinutes}

HarnessInputs == UNION {[1..n -> HarnessRoutes] : n \in 0..MaxListLen}

HarnessRequest ==
  [from |-> "JNB", to |-> "CPT", date |-> 1, returnDate |-> "", passengers |-> 1,
   bags |-> 0, cabinClass |-> "M", currency |-> "ZAR", tripType |-> "oneway"]

InitFn ==
  /\ PipelineInit
  /\ fnIn \in HarnessInputs
  /\ fnOut = <<>>
  /\ fnOp = "none"

pipelineVars == <<pc, req, result, err, queries, outcomes, ttlUsed, recent,
                  cache, redisUp, initialized, now, sideVars>>

FnStitchTwoRoutes ==
  /\ Len(fnIn) >= 2
  /\ fnOp' = "stitchTwoRoutes"
  /\ fnOut' = stitchTwoRoutes(fnIn[1], fnIn[2])
  /\ UNCHANGED <<fnIn, pipelineVars>>

FnDeduplicateRoutes ==
  /\ fnOp' = "deduplicateRoutes"
  /\ fnOut' = deduplicateRoutes(fnIn)
  /\ UNCHANGED <<fnIn, pipelineVars>>

FnSortByPrice ==
  /\ fnOp' = "sortByPrice"
  /\ fnOut' = sortByPrice(fnIn)
  /\ UNCHANGED <<fnIn, pipelineVars>>

\* the call findCheapestRoutes makes in its filter, on the first itinerary
FnValidateRoute ==
  /\ Len(fnIn) >= 1
  /\ fnOp' = "validateRoute"
  /\ fnOut' = IF validateRoute(fnIn[1], minConnectionTime, maxConnectionTime)
              THEN <<fnIn[1]>> ELSE <<>>
  /\ UNCHANGED <<fnIn, pipelineVars>>

\* steps 3 to 9 of findCheapestRoutes with fnIn as what the providers brought
FnFinalRoutes ==
  /\ fnOp' = "finalRoutes"
  /\ fnOut' = finalRoutes(HarnessRequest, fnIn, UsdZarRate)
  /\ UNCHANGED <<fnIn, pipelineVars>>

NextFn ==
  \/ FnStitchTwoRoutes
  \/ FnDeduplicateRoutes
  \/ FnSortByPrice
  \/ FnValidateRoute
  \/ FnFinalRoutes

SpecFn == InitFn /\ [][NextFn]_vars

-----------------------------------------------------------------------------
(* Properties of findCheapestRoutes, checked under Spec *)

\* C1: a search in which providers fail returns what the pipeline computes
\* from the answers of the succeeding providers alone, and no error of a
\* provider reaches the caller (the only error after the fan-out is the
\* refused Redis connection of the cache write).
C1_FailedProvidersAbsorbed ==
  \A c \in Calls : queries[c] > 0 =>
    LET o == outcomes[c]
        succeeding ==
          (IF o.kiwi.ok THEN Tagged(o.kiwi.routes, "kiwi") ELSE <<>>)
          \o (IF o.travelpayouts.ok
              THEN Tagged(o.travelpayouts.routes, "travelpayouts") ELSE <<>>)
          \o (IF o.skyscanner.ok THEN Tagged(o.skyscanner.routes, "skyscanner") ELSE <<>>)
    IN /\ pc[c] \in {"populate", "done", "failed"}
       /\ pc[c] # "failed" =>
            /\ err[c] = NoError
            /\ result[c] = finalRoutes(req[c], succeeding, o.rate)
       /\ pc[c] = "failed" => err[c] = <<"Search failed: ", "connect ECONNREFUSED">>

\* a finished search with a failed and a succeeding provider and a non-empty list
C1_Witness ==
  \E c \in Calls :
    /\ pc[c] = "done" /\ queries[c] > 0
    /\ ~outcomes[c].kiwi.ok /\ outcomes[c].travelpayouts.ok /\ ~outcomes[c].skyscanner.ok
    /\ Len(result[c]) > 0

\* C5 as stated: a call that starts at the clock value at which an identical
\* call completed issues no provider query and returns the same list,
\* whatever the first call returned.
C5_Original ==
  [][\A c, d \in Calls :
       (/\ c # d /\ pc[c] = "done" /\ c \in recent
        /\ pc[d] = "idle" /\ pc'[d] # "idle" /\ req'[d] = req[c])
       => (/\ pc'[d] = "done"
           /\ queries'[d] = 0
           /\ result'[d] = result[c])]_vars

\* C5 amended: when the first call returned a non-empty list and wrote it to
\* the cache, and Redis is reachable, a second identical call within the TTL
\* issues no provider query and returns that list as it reads after
\* JSON.stringify / JSON.parse (departure and arrival as strings).
C5_Amended ==
  [][\A c, d \in Calls :
       (/\ c # d /\ pc[c] = "done" /\ c \in recent
        /\ pc[d] = "idle" /\ pc'[d] # "idle" /\ req'[d] = req[c]
        /\ Len(result[c]) > 0 /\ ttlUsed[c] > 0 /\ redisUp)
       => (/\ pc'[d] = "done"
           /\ queries'[d] = 0
           /\ result'[d] = JsonRoundTrip(result[c]))]_vars

\* the second call answered from the entry the first call wrote
C5_Witness ==
  \E c, d \in Calls :
    /\ c # d /\ {c, d} \subseteq recent
    /\ pc[c] = "done" /\ ttlUsed[c] > 0 /\ queries[c] > 0
    /\ pc[d] = "done" /\ queries[d] = 0 /\ req[d] = req[c]
    /\ Len(result[d]) > 0 /\ result[d] = JsonRoundTrip(result[c])

\* C6: every error that reaches the caller of findCheapestRoutes has a
\* message that starts with 'Search failed: '.
C6_OnlySearchFailed ==
  \A c \in Calls : err[c] # NoError => err[c][1] = "Search failed: "

\* C7: of two searches written to the cache, the one whose travel date is at
\* most a day away gets a shorter TTL than the one more than a week away.
C7_TtlShortens ==
  \A c, d \in Calls :
    (ttlUsed[c] > 0 /\ ttlUsed[d] > 0 /\ req[c].date <= 1 /\ req[d].date > 7)
    => ttlUsed[c] < ttlUsed[d]

\* C10: kiwi answers with the direct JNB-CPT itinerary at 3000, travelpayouts
\* with JNB-ADD at 2000 and ADD-CPT at 1500 five hours later, skyscanner with
\* nothing: the list holds the direct itinerary and the stitched one (base
\* price 3500), and the direct itinerary is its first element.
C10_DirectFirst ==
  \A c \in Calls :
    (/\ queries[c] > 0 /\ pc[c] # "failed"
     /\ outcomes[c].kiwi = Answer(<<JNB_CPT>>)
     /\ outcomes[c].travelpayouts = Answer(<<JNB_ADD, ADD_CPT>>)
     /\ outcomes[c].skyscanner = Answer(<<>>))
    => /\ \E i \in 1..Len(result[c]) :
            /\ result[c][i].segments = JNB_CPT.segments
            /\ result[c][i].totalPrice = 3000
       /\ \E i \in 1..Len(result[c]) :
            /\ result[c][i].segments = JNB_ADD.segments \o ADD_CPT.segments
            /\ result[c][i].virtualInterline
            /\ result[c][i].totalPrice = 3500
       /\ result[c][1].segments = JNB_CPT.segments
       /\ result[c][1].totalPrice = 3000

C23_FromOriginToDestination ==
  \A c \in Calls :
    pc[c] = "done" =>
      \A i \in 1..Len(result[c]) :
        /\ result[c][i].segments # <<>>
        /\ result[c][i].segments[1].from = req[c].from
        /\ Last(result[c][i].segments).to = req[c].to

\* C24: a call answered from the cache returns a list priced for the bag
\* count and the cabin class it was asked for, and it is answered from an
\* entry that no call with another bag count, cabin class or trip type wrote.
C24_NoSharedEntry ==
  \A c \in Calls :
    (pc[c] = "done" /\ queries[c] = 0) =>
      /\ \A i \in 1..Len(result[c]) :
           result[c][i].baggageFeeZAR = calculateBaggageFee(req[c].bags, req[c].cabinClass)
      /\ \A d \in Calls :
           (d # c /\ ttlUsed[d] > 0 /\ result[c] = JsonRoundTrip(result[d]))
           => /\ req[d].bags = req[c].bags
              /\ req[d].cabinClass = req[c].cabinClass
              /\ req[d].tripType = req[c].tripType

-----------------------------------------------------------------------------
(* Properties of the single stages, checked under SpecFn *)

\* C2 as stated: two legs that meet at one airport are not stitched when the
\* second departs less than 240 minutes after the first lands, and are
\* stitched when the gap is between 240 minutes and the maximum.
C2_Original ==
  fnOp = "stitchTwoRoutes" =>
    LET a == fnIn[1]
        b == fnIn[2]
    IN (/\ a.segments # <<>> /\ b.segments # <<>> /\ a.id # b.id
        /\ Last(a.segments).to = b.segments[1].from)
       => LET gap == b.segments[1].departure - Last(a.segments).arrival
          IN /\ gap < 240 * Minute => fnOut = <<>>
             /\ (gap >= 240 * Minute /\ gap <= 24 * Hour) => fnOut # <<>>

\* C2 amended: the threshold of stitchTwoRoutes is 120 minutes
\* (config.limits.minConnectionTime): below it the result is null, from 120
\* minutes up to 24 hours the legs are stitched into one virtual-interline
\* itinerary holding the segments of both.
C2_Amended ==
  fnOp = "stitchTwoRoutes" =>
    LET a == fnIn[1]
        b == fnIn[2]
    IN (/\ a.segments # <<>> /\ b.segments # <<>> /\ a.id # b.id
        /\ Last(a.segments).to = b.segments[1].from)
       => LET gap == b.segments[1].departure - Last(a.segments).arrival
          IN /\ gap < 120 * Minute => fnOut = <<>>
             /\ (gap >= 120 * Minute /\ gap <= 24 * Hour) =>
                  /\ fnOut # <<>>
                  /\ fnOut[1].segments = a.segments \o b.segments
                  /\ fnOut[1].virtualInterline

\* two legs with a gap of exactly two hours, stitched
C2_Witness ==
  /\ fnOp = "stitchTwoRoutes"
  /\ fnIn[1] = JNB_ADD /\ fnIn[2] = Onward(120)
  /\ fnOut # <<>>

\* C3: an itinerary validateRoute accepts has every segment arrive at the
\* airport the next one departs from, and so has every itinerary of the
\* list findCheapestRoutes builds.
C3_AdjacentSegmentsMeet ==
  /\ (fnOp = "validateRoute" /\ fnOut # <<>>) =>
       \A i \in 1..(Len(fnIn[1].segments) - 1) :
         fnIn[1].segments[i].to = fnIn[1].segments[i + 1].from
  /\ fnOp = "finalRoutes" =>
       \A r \in 1..Len(fnOut) : \A i \in 1..(Len(fnOut[r].segments) - 1) :
         fnOut[r].segments[i].to = fnOut[r].segments[i + 1].from

\* a two-segment itinerary accepted by validateRoute
C3_Witness ==
  /\ fnOp = "validateRoute"
  /\ fnOut # <<>>
  /\ Len(fnIn[1].segments) = 2

\* C4: the output of sortByPrice, and the list findCheapestRoutes builds, is
\* in non-decreasing order of final price, the converted base price, then
\* the base price, then 0 standing in where the final price is absent.
C4_NonDecreasingPrice ==
  fnOp \in {"sortByPrice", "finalRoutes"} =>
    \A i \in 1..(Len(fnOut) - 1) :
      LET price(r) == IF r.finalPriceZAR \notin {Undefined, NaN, 0} THEN r.finalPriceZAR
                      ELSE IF r.totalPriceZAR \notin {Undefined, NaN, 0} THEN r.totalPriceZAR
                      ELSE IF r.totalPrice \notin {Undefined, NaN, 0} THEN r.totalPrice
                      ELSE 0
      IN price(fnOut[i]) <= price(fnOut[i + 1])

\* sortByPrice moved an itinerary with a final price ahead of one without
C4_Witness ==
  /\ fnOp = "sortByPrice"
  /\ Len(fnOut) = 3
  /\ fnOut # fnIn
  /\ fnOut[1] = PRICED
  /\ fnOut[2].finalPriceZAR = Undefined

\* C8: deduplicateRoutes applied to its own output returns that output,
\* element for element and in the same order.
C8_DedupIdempotent ==
  fnOp = "deduplicateRoutes" => deduplicateRoutes(fnOut) = fnOut

\* a list of three out of which deduplicateRoutes dropped one
C8_Witness ==
  /\ fnOp = "deduplicateRoutes"
  /\ Len(fnIn) = 3
  /\ Len(fnOut) = 2

\* C9: stitchTwoRoutes returns null when the first leg lands at another
\* airport than the second departs from, and when the second leg departs
\* before the first lands.
C9_MismatchOrNegativeGap ==
  fnOp = "stitchTwoRoutes" =>
    LET a == fnIn[1]
        b == fnIn[2]
    IN (/\ a.segments # <<>> /\ b.segments # <<>>
        /\ \/ Last(a.segments).to # b.segments[1].from
           \/ b.segments[1].departure < Last(a.segments).arrival)
       => fnOut = <<>>

\* legs that meet nowhere although the times would allow a connection
C9_Witness ==
  /\ fnOp = "stitchTwoRoutes"
  /\ fnIn[1] = JNB_ADD /\ fnIn[2] = NBO_CPT
  /\ fnOut = <<>>

\* C29: the currency recorded on an itinerary produced by stitchTwoRoutes is
\* the currency of the price of its first leg and of the price of its second
\* leg, the two amounts that were added.
C29_OneCurrency ==
  (fnOp = "stitchTwoRoutes" /\ fnOut # <<>>) =>
    LET currencyOf(route) == IF route.currency = "" THEN "ZAR" ELSE route.currency
    IN /\ fnOut[1].currency = currencyOf(fnIn[1])
       /\ fnOut[1].currency = currencyOf(fnIn[2])

-----------------------------------------------------------------------------
(* RouteValidator applied to segments, connections and itineraries *)

MaxLegs == 3

FlightTime == 2 * Hour

\* single segments: airport codes well-formed, lower-case, too long and
\* missing; instants present, missing and invalid; durations of 0, 20 and 21
\* hours and of 20 hours and a millisecond
SegmentCodes == {"JNB", "CPT", "jnb", "JNBX", ""}
SegmentDepartures == {Undefined, NaN, 8 * Hour}
SegmentArrivals ==
  {Undefined, NaN, 7 * Hour, 8 * Hour, 10 * Hour, 28 * Hour, 28 * Hour + 1, 29 * Hour}
SegmentCases ==
  {Seg("SA", "1", f, t, d, a) :
     f \in SegmentCodes, t \in SegmentCodes, d \in SegmentDepartures, a \in SegmentArrivals}

\* connections: the first segment lands at 10:00, the second leaves gap
\* minutes later
FirstLegs ==
  {<<"CPT", "DUR">>, <<"DUR", "JNB">>, <<"JNB", "JFK">>, <<"JNB", "LHR">>,
   <<"JNB", "MBA">>}
SecondLegs ==
  {<<"DUR", "JNB">>, <<"DUR", "NBO">>, <<"JNB", "CPT">>, <<"JNB", "NBO">>,
   <<"JFK", "CDG">>, <<"LGW", "CDG">>, <<"LHR", "CDG">>, <<"MBA", "CPT">>}
ConnectionGaps ==
  {0 - 30, 59, 60, 89, 90, 119, 120, 179, 180, 239, 240, 720, 721, 1440, 1441, 1800}
\* maxConnectionTimeMs as a caller supplies it: not at all, 12 hours, 48 hours
MaxChoices == {Undefined, 12 * Hour, 48 * Hour}
\* minConnectionTimeMs as a caller supplies it: not at all, half an hour, the
\* configured two hours (what findCheapestRoutes passes), six hours
MinChoices == {Undefined, 30 * Minute, minConnectionTime, 6 * Hour}

Connection(a, b, gap) ==
  << Seg("SA", "1", a[1], a[2], 8 * Hour, 10 * Hour),
     Seg("SA", "2", b[1], b[2], 10 * Hour + gap * Minute,
         10 * Hour + gap * Minute + FlightTime) >>

\* itineraries: legs flown one after the other with the same wait between them
RouteLegs ==
  {<<"JNB", "CPT">>, <<"CPT", "JNB">>, <<"CPT", "DUR">>, <<"DUR", "JNB">>,
   <<"JNB", "LHR">>, <<"LHR", "CDG">>, <<"jnb", "CPT">>}
RouteWaits == {4 * Hour, 24 * Hour}

Chain(legs, wait) ==
  [i \in 1..Len(legs) |->
     Seg("SA", "1", legs[i][1], legs[i][2],
         8 * Hour + (i - 1) * (FlightTime + wait),
         8 * Hour + (i - 1) * (FlightTime + wait) + FlightTime)]

ValidatorInputs ==
  {[segments |-> <<s>>, virtualInterline |-> FALSE, maxMs |-> Undefined] : s \in SegmentCases}
  \cup {[segments |-> Connection(a, b, g), virtualInterline |-> v, maxMs |-> m] :
          a \in FirstLegs, b \in SecondLegs, g \in ConnectionGaps,
          v \in BOOLEAN, m \in MaxChoices}
  \cup UNION {{[segments |-> Chain(legs, w), virtualInterline |-> v, maxMs |-> Undefined] :
                 legs \in [1..n -> RouteLegs], w \in RouteWaits, v \in BOOLEAN} :
              n \in 1..MaxLegs}

InitVal ==
  /\ PipelineInit
  /\ fnIn \in ValidatorInputs
  /\ fnOut = <<>>
  /\ fnOp = "none"

ValSegment ==
  /\ fnOp' = "validateSegment"
  /\ fnOut' = [valid |-> validateSegment(fnIn.segments[1]), reason |-> ""]
  /\ UNCHANGED <<fnIn, pipelineVars>>

ValConnection ==
  /\ Len(fnIn.segments) >= 2
  /\ fnOp' = "validateConnection"
  /\ \E minMs \in MinChoices :
       LET verdict == validateConnection(fnIn.segments[1], fnIn.segments[2],
                                         minMs, fnIn.maxMs, fnIn.virtualInterline)
       IN fnOut' = [valid |-> verdict = "ok", reason |-> verdict]
  /\ UNCHANGED <<fnIn, pipelineVars>>

ValVisaRequirements ==
  /\ fnOp' = "validateVisaRequirements"
  /\ LET verdict == validateVisaRequirements(fnIn.segments)
     IN fnOut' = [valid |-> verdict = "ok", reason |-> verdict]
  /\ UNCHANGED <<fnIn, pipelineVars>>

ValAirportChanges ==
  /\ fnOp' = "validateAirportChanges"
  /\ fnOut' = [valid |-> validateAirportChanges(fnIn.segments), reason |-> ""]
  /\ UNCHANGED <<fnIn, pipelineVars>>

ValRoute ==
  /\ fnOp' = "validateRoute"
  /\ LET route == [ProviderRoute(<<"v1">>, fnIn.segments, 1000, "ZAR", 0)
                     EXCEPT !.virtualInterline = fnIn.virtualInterline]
     IN \E minMs \in MinChoices :
          fnOut' = [valid |-> validateRoute(route, minMs, fnIn.maxMs), reason |-> ""]
  /\ UNCHANGED <<fnIn, pipelineVars>>

NextVal ==
  \/ ValSegment
  \/ ValConnection
  \/ ValVisaRequirements
  \/ ValAirportChanges
  \/ ValRoute

SpecVal == InitVal /\ [][NextVal]_vars

-----------------------------------------------------------------------------
(* Properties of RouteValidator, checked under SpecVal *)

\* C11: validateSegment returns true if and only if origin and destination
\* are three capital letters, departure and arrival are valid instants,
\* departure is strictly before arrival, the flight lasts at most 20 hours
\* (20 hours accepted, 21 rejected) and origin differs from destination.
C11_ValidateSegmentIff ==
  fnOp = "validateSegment" =>
    LET s == fnIn.segments[1]
        threeCapitals == {"JNB", "CPT", "DUR", "NBO", "MBA", "LHR", "LGW", "CDG",
                          "JFK", "SIN"}
        instant(x) == x # Undefined /\ x # NaN
    IN fnOut.valid <=>
         /\ s.from \in threeCapitals /\ s.to \in threeCapitals
         /\ instant(s.departure) /\ instant(s.arrival)
         /\ s.departure < s.arrival
         /\ s.arrival - s.departure <= 20 * 60 * Minute
         /\ s.from # s.to

\* a flight of exactly 20 hours, accepted
C11_Witness ==
  /\ fnOp = "validateSegment"
  /\ fnIn.segments[1].arrival - fnIn.segments[1].departure = 20 * Hour
  /\ fnIn.segments[1].departure = 8 * Hour
  /\ fnOut.valid

C13_AirportChangeMinimum ==
  fnOp = "validateConnection" =>
    LET a == fnIn.segments[1]
        b == fnIn.segments[2]
        gap == b.departure - a.arrival
        maximum == IF fnIn.maxMs = Undefined THEN 24 * 60 * Minute ELSE fnIn.maxMs
        london == {"LHR", "LGW", "STN", "LTN"}
    IN (/\ ~fnIn.virtualInterline
        /\ a.to \in london /\ b.from \in london /\ a.to # b.from
        /\ gap >= 0 /\ gap <= maximum)
       => (fnOut.valid <=> gap >= 180 * Minute)

\* C14: validateConnection rejects every connection whose gap is above the
\* maximum the caller supplies (24 hours when none is supplied) and every
\* connection whose gap is above 24 hours whatever the caller supplies;
\* validateRoute accepts no itinerary with a connection longer than 24 hours.
C14_MaximumAndHardBound ==
  /\ fnOp = "validateConnection" =>
       LET gap == fnIn.segments[2].departure - fnIn.segments[1].arrival
           maximum == IF fnIn.maxMs = Undefined THEN 24 * 60 * Minute ELSE fnIn.maxMs
       IN (gap > maximum \/ gap > 24 * 60 * Minute) => ~fnOut.valid
  /\ fnOp = "validateRoute" =>
       \A i \in 1..(Len(fnIn.segments) - 1) :
         (/\ fnIn.segments[i + 1].departure # Undefined
          /\ fnIn.segments[i].arrival # Undefined
          /\ fnIn.segments[i + 1].departure - fnIn.segments[i].arrival > 24 * 60 * Minute)
         => ~fnOut.valid

\* C15: validateVisaRequirements answers invalid, with a reason naming the
\* country, exactly when some transit airport (the arrival airport of a
\* segment that is the departure airport of the next) lies in the United
\* States, the United Kingdom, Canada, Australia or New Zealand.
C15_VisaTransit ==
  fnOp = "validateVisaRequirements" =>
    LET country(x) == CASE x \in {"JFK", "LAX", "EWR", "LGA"} -> "US"
                        [] x \in {"LHR", "LGW", "STN", "LTN"} -> "UK"
                        [] OTHER -> "elsewhere"
        transit == {fnIn.segments[i].to : i \in {j \in 1..(Len(fnIn.segments) - 1) :
                      fnIn.segments[j].to = fnIn.segments[j + 1].from}}
        flagged == {x \in transit : country(x) \in {"US", "UK", "CA", "AU", "NZ"}}
    IN /\ fnOut.valid <=> flagged = {}
       /\ ~fnOut.valid => fnOut.reason \in {country(x) : x \in flagged}

C17_ValidateRouteComposes ==
  fnOp = "validateRoute" =>
    LET segs == fnIn.segments
        route == [ProviderRoute(<<"v1">>, segs, 1000, "ZAR", 0)
                    EXCEPT !.virtualInterline = fnIn.virtualInterline]
        segmentsPass == \A i \in 1..Len(segs) : validateSegment(segs[i])
        connectionsPass ==
          \A i \in 1..(Len(segs) - 1) :
            validateConnection(segs[i], segs[i + 1], minConnectionTime, fnIn.maxMs,
                               fnIn.virtualInterline) = "ok"
    IN /\ fnOut.valid \in BOOLEAN
       /\ fnOut.valid <=>
            IF ~segmentsPass THEN FALSE
            ELSE IF ~connectionsPass THEN FALSE
            ELSE IF validateVisaRequirements(segs) # "ok" THEN FALSE
            ELSE IF ~validateAirportChanges(segs) THEN FALSE
            ELSE validateTotalDuration(route)

\* an itinerary of three segments that passes every check
C17_Witness ==
  /\ fnOp = "validateRoute"
  /\ Len(fnIn.segments) = 3
  /\ fnOut.valid

\* C27: the verdict of validateConnection, and with it the verdict of
\* validateRoute, is the same for every minimum connection time the caller
\* passes.
C27_CallerMinimumIgnored ==
  /\ fnOp = "validateConnection" =>
       \A minMs \in MinChoices :
         LET verdict == validateConnection(fnIn.segments[1], fnIn.segments[2],
                                           minMs, fnIn.maxMs, fnIn.virtualInterline)
         IN fnOut = [valid |-> verdict = "ok", reason |-> verdict]
  /\ fnOp = "validateRoute" =>
       \A minMs \in MinChoices :
         fnOut.valid =
           validateRoute([ProviderRoute(<<"v1">>, fnIn.segments, 1000, "ZAR", 0)
                            EXCEPT !.virtualInterline = fnIn.virtualInterline],
                         minMs, fnIn.maxMs)

\* a domestic connection of an hour at an airport that is no large hub is
\* accepted, where the half hour, the two hours and the six hours a caller
\* may pass would have drawn the line elsewhere
C27_Witness ==
  /\ fnOp = "validateConnection"
  /\ Len(fnIn.segments) = 2
  /\ ~fnIn.virtualInterline
  /\ fnIn.segments[1].to = "DUR" /\ fnIn.segments[2].to = "JNB"
  /\ fnIn.segments[2].departure - fnIn.segments[1].arrival = 60 * Minute
  /\ fnOut.valid

-----------------------------------------------------------------------------
(* generateCombinations applied to two buckets and a cap *)

MaxBucket == 8
MaxCap == 6

\* n itineraries told apart by their price
Bucket(n, side) == [i \in 1..n |-> ProviderRoute(<<side>>, <<>>, 20 * i, "ZAR", 0)]

\* the caps: small ones and the one generateStitchedRoutes passes
CapChoices == (1..MaxCap) \cup {maxStitchedRoutes}

CombinationInputs ==
  {[routesA |-> Bucket(a, "toHub"), routesB |-> Bucket(b, "fromHub"),
    maxCombinations |-> cap] :
     a \in 0..MaxBucket, b \in 0..MaxBucket, cap \in CapChoices}

InitComb ==
  /\ PipelineInit
  /\ fnIn \in CombinationInputs
  /\ fnOut = <<>>
  /\ fnOp = "none"

CombGenerate ==
  /\ fnOp' = "generateCombinations"
  /\ fnOut' = generateCombinations(fnIn.routesA, fnIn.routesB, fnIn.maxCombinations)
  /\ UNCHANGED <<fnIn, pipelineVars>>

NextComb == CombGenerate

SpecComb == InitComb /\ [][NextComb]_vars

\* C18: for buckets of every size and every positive cap, generateCombinations
\* returns at most cap pairs, each of one toHub and one fromHub itinerary,
\* and no pair twice.
C18_AtMostCapPairs ==
  fnOp = "generateCombinations" =>
    /\ Len(fnOut) <= fnIn.maxCombinations
    /\ \A k \in 1..Len(fnOut) :
         /\ \E i \in 1..Len(fnIn.routesA) : fnOut[k].firstLeg = fnIn.routesA[i]
         /\ \E j \in 1..Len(fnIn.routesB) : fnOut[k].secondLeg = fnIn.routesB[j]
    /\ \A k, l \in 1..Len(fnOut) : fnOut[k] = fnOut[l] => k = l

\* C28: when the buckets have no more pairs than the cap, generateCombinations
\* returns every pair of a toHub and a fromHub itinerary.
C28_AllPairsUnderCap ==
  (/\ fnOp = "generateCombinations"
   /\ Len(fnIn.routesA) * Len(fnIn.routesB) <= fnIn.maxCombinations)
  => \A i \in 1..Len(fnIn.routesA), j \in 1..Len(fnIn.routesB) :
       \E k \in 1..Len(fnOut) :
         fnOut[k] = [firstLeg |-> fnIn.routesA[i], secondLeg |-> fnIn.routesB[j]]

-----------------------------------------------------------------------------
(* PriceNormalizer applied to lists of itineraries and to searches *)

MaxBags == 3
MaxFeeRoutes == 2

\* cabinClass as a caller writes it; "" when the caller leaves it out
CabinChoices == {"", "economy", "premium_economy", "business", "first"}

UNPRICED == [JNB_CPT_2 EXCEPT !.totalPrice = Undefined]

FeeRoutes ==
  {[JNB_CPT EXCEPT !.source = "kiwi", !.bookingEngine = "kiwi"],
   [JNB_CPT_USD EXCEPT !.source = "kiwi", !.bookingEngine = "kiwi"],
   [THROUGH EXCEPT !.source = "skyscanner", !.bookingEngine = "skyscanner"],
   StitchedRoute(JNB_ADD, ADD_CPT), UNPRICED}

FeeInputs ==
  {[routes |-> rs, bags |-> b, cabinClass |-> c, rate |-> x, nullPreferences |-> n] :
     rs \in UNION {[1..k -> FeeRoutes] : k \in 0..MaxFeeRoutes},
     b \in 0..MaxBags, c \in CabinChoices, x \in {0, UsdZarRate}, n \in BOOLEAN}

InitFee ==
  /\ PipelineInit
  /\ fnIn \in FeeInputs
  /\ fnOut = <<>>
  /\ fnOp = "none"

\* normalizeRoutes as any caller may call it
FeeNormalizeRoutes ==
  /\ fnOp' = "normalizeRoutes"
  /\ fnOut' = normalizeRoutes(fnIn.routes,
                IF fnIn.nullPreferences THEN NullPreferences
                ELSE [passengers |-> 1, bags |-> fnIn.bags, cabinClass |-> fnIn.cabinClass],
                fnIn.rate)
  /\ UNCHANGED <<fnIn, pipelineVars>>

\* findCheapestRoutes from the defaults of searchParams down to finalRoutes,
\* with fnIn.routes as what the providers brought
FeeFinalRoutes ==
  /\ ~fnIn.nullPreferences
  /\ fnOp' = "finalRoutes"
  /\ fnOut' = finalRoutes(
                searchDefaults([HarnessRequest EXCEPT !.bags = fnIn.bags,
                                                      !.cabinClass = fnIn.cabinClass]),
                fnIn.routes, fnIn.rate)
  /\ UNCHANGED <<fnIn, pipelineVars>>

NextFee ==
  \/ FeeNormalizeRoutes
  \/ FeeFinalRoutes

SpecFee == InitFee /\ [][NextFee]_vars

\* C19: in a search with cabin class c and b bags every itinerary of the list
\* carries the baggage fee of max(0, b - free(c)) bags at the per-bag fee of
\* the cabin: free is 0 in economy, the cabin of a search that names none,
\* 1 in premium economy and 2 in business and first; an economy search with
\* a bag or more has a positive baggage fee.
C19_BaggageAllowance ==
  fnOp = "finalRoutes" =>
    LET cabin == IF fnIn.cabinClass = "" THEN "economy" ELSE fnIn.cabinClass
        free == CASE cabin = "economy" -> 0
                  [] cabin = "premium_economy" -> 1
                  [] OTHER -> 2
        perBag == CASE cabin = "economy" -> 20
                    [] cabin = "premium_economy" -> 30
                    [] cabin = "business" -> 40
                    [] OTHER -> 50
        charged == IF fnIn.bags > free THEN fnIn.bags - free ELSE 0
    IN \A i \in 1..Len(fnOut) :
         /\ fnOut[i].baggageFeeZAR = charged * perBag
         /\ (cabin = "economy" /\ fnIn.bags >= 1) => fnOut[i].baggageFeeZAR > 0

\* C20: normalizeRoutes returns a list as long as its input and in the same
\* order, and an itinerary whose fee computation threw comes back unmodified.
C20_NormalizeKeepsAll ==
  fnOp = "normalizeRoutes" =>
    /\ Len(fnOut) = Len(fnIn.routes)
    /\ \A i \in 1..Len(fnOut) :
         /\ fnOut[i].id = fnIn.routes[i].id
         /\ fnOut[i].segments = fnIn.routes[i].segments
         /\ fnOut[i].totalPrice = fnIn.routes[i].totalPrice
         /\ fnIn.nullPreferences => fnOut[i] = fnIn.routes[i]

\* two itineraries whose fee computation threw, both returned as they came
C20_Witness ==
  /\ fnOp = "normalizeRoutes"
  /\ fnIn.nullPreferences
  /\ Len(fnIn.routes) = 2
  /\ fnOut = fnIn.routes

-----------------------------------------------------------------------------
(* Helpers.extractAirportCode applied to texts *)

MaxTextLen == 4

\* A text is a sequence of characters.  The characters of the universe: a
\* capital, a small letter, a digit, a blank, and two letters outside A-Z
\* whose upper case is not one character of their own (String.prototype
\* .toUpperCase follows the Unicode special casing: the sharp s becomes SS,
\* the dotless i becomes I)
Capitals ==
  {"A", "B", "C", "D", "E", "F", "G", "H", "I", "J", "K", "L", "M", "N", "O", "P",
   "Q", "R", "S", "T", "U", "V", "W", "X", "Y", "Z"}
SharpS == "sharp s"
DotlessI == "dotless i"
TextChars == {"J", "b", "1", " ", SharpS, DotlessI}

\* text.trim()
RECURSIVE trimStart(_)
trimStart(text) ==
  IF text # <<>> /\ Head(text) = " " THEN trimStart(Tail(text)) ELSE text

RECURSIVE trimEnd(_)
trimEnd(text) ==
  IF text # <<>> /\ Last(text) = " " THEN trimEnd(SubSeq(text, 1, Len(text) - 1)) ELSE text

trim(text) == trimEnd(trimStart(text))

SmallLetters ==
  <<"a", "b", "c", "d", "e", "f", "g", "h", "i", "j", "k", "l", "m", "n", "o", "p",
    "q", "r", "s", "t", "u", "v", "w", "x", "y", "z">>
CapitalLetters ==
  <<"A", "B", "C", "D", "E", "F", "G", "H", "I", "J", "K", "L", "M", "N", "O", "P",
    "Q", "R", "S", "T", "U", "V", "W", "X", "Y", "Z">>

\* the upper case of one character, as a text
upperOfChar(ch) ==
  IF \E i \in 1..26 : SmallLetters[i] = ch
  THEN << CapitalLetters[CHOOSE i \in 1..26 : SmallLetters[i] = ch] >>
  ELSE IF ch = SharpS THEN <<"S", "S">>
  ELSE IF ch = DotlessI THEN <<"I">>
  ELSE <<ch>>

\* text.toUpperCase()
toUpperCase(text) == Concat([i \in 1..Len(text) |-> upperOfChar(text[i])])

\* lines 46-50; <<>> stands for null, <<code>> for a returned code; missing
\* is a text that is undefined or null
extractAirportCode(text, missing) ==
  IF missing \/ text = <<>> THEN <<>>
  ELSE LET upper == toUpperCase(trim(text))
       IN IF Len(upper) = 3 /\ \A i \in 1..3 : upper[i] \in Capitals
          THEN << upper >>
          ELSE <<>>

Texts == UNION {[1..n -> TextChars] : n \in 0..MaxTextLen}

TextInputs ==
  {[text |-> t, missing |-> FALSE] : t \in Texts}
  \cup {[text |-> <<>>, missing |-> TRUE]}

InitText ==
  /\ PipelineInit
  /\ fnIn \in TextInputs
  /\ fnOut = <<>>
  /\ fnOp = "none"

TextExtractAirportCode ==
  /\ fnOp' = "extractAirportCode"
  /\ fnOut' = extractAirportCode(fnIn.text, fnIn.missing)
  /\ UNCHANGED <<fnIn, pipelineVars>>

NextText == TextExtractAirportCode

SpecText == InitText /\ [][NextText]_vars

\* C22: extractAirportCode returns the upper-cased trimmed text when the
\* trimmed text is exactly three letters of A-Z, capital or small, and null
\* for every other text, the empty and the missing one included.
C22_ThreeLettersOrNull ==
  fnOp = "extractAirportCode" =>
    LET trimmed == trim(fnIn.text)
        letter(ch) == ch \in Capitals \/ \E i \in 1..26 : SmallLetters[i] = ch
    IN IF ~fnIn.missing /\ Len(trimmed) = 3 /\ \A i \in 1..3 : letter(trimmed[i])
       THEN fnOut = << toUpperCase(trimmed) >>
       ELSE fnOut = <<>>

-----------------------------------------------------------------------------
(* BotCommands: the guided search conversation of one user *)

\* what the user types, and the texts handleCallbackQuery builds
ChatTexts ==
  {"JNB", "cpt", "not code", "tomorrow", "2020-01-01", "2", "0", "custom",
   "confirm_search", "edit_search"}

\* the characters of a text
Characters ==
  ("JNB" :> <<"J", "N", "B">>)
  @@ ("cpt" :> <<"c", "p", "t">>)
  @@ ("not code" :> <<"n", "o", "t", " ", "c", "o", "d", "e">>)
  @@ ("tomorrow" :> <<"t", "o", "m", "o", "r", "r", "o", "w">>)
  @@ ("2020-01-01" :> <<"2", "0", "2", "0", "-", "0", "1", "-", "0", "1">>)
  @@ ("2" :> <<"2">>)
  @@ ("0" :> <<"0">>)
  @@ ("custom" :> <<"c", "u", "s", "t", "o", "m">>)
  @@ ("confirm_search" :> <<"c", "o", "n", "f", "i", "r", "m", "_", "s", "e", "a", "r", "c", "h">>)
  @@ ("edit_search" :> <<"e", "d", "i", "t", "_", "s", "e", "a", "r", "c", "h">>)
  @@ ("passengers:2" :> <<"p", "a", "s", "s", "e", "n", "g", "e", "r", "s", ":", "2">>)
  @@ ("passengers:custom" :> <<"p", "a", "s", "s", "e", "n", "g", "e", "r", "s", ":", "c", "u", "s", "t", "o", "m">>)

\* day numbers: the day of the conversation, and what the date texts mean
Today == 100
DaysPerYear == 365

\* Helpers.parseNaturalDate followed by new Date(): the day the text parses
\* to.  A text moment does not parse gives the day a week from now; for a
\* text with digits that is not a date the forgiving parser may find a date
\* in the distant past instead.
parseNaturalDate(text) ==
  CASE text = "tomorrow" -> {Today + 1}
    [] text = "2020-01-01" -> {Today - 1000}
    [] text \in {"2", "0", "passengers:2"} -> {Today - 1000, Today + 7}
    [] OTHER -> {Today + 7}

\* parseInt(text, 10)
parseInt(text) ==
  CASE text = "2" -> 2
    [] text = "0" -> 0
    [] text = "2020-01-01" -> 2020
    [] OTHER -> NaN

\* text.match(/passengers:(\d+)/): <<>> for null, <<digits as a number>>
matchPassengers(text) == IF text = "passengers:2" THEN <<2>> ELSE <<>>

Locations == {"none", "Johannesburg", "elsewhere"}

getAirportFromLocation(location) ==
  IF location = "Johannesburg" THEN << <<"J", "N", "B">> >> ELSE <<>>

EmptySearchData ==
  [from |-> <<>>, to |-> <<>>, date |-> Undefined, passengers |-> Undefined, currency |-> ""]

Steps ==
  <<"awaiting_from", "awaiting_to", "awaiting_date", "awaiting_passengers",
    "awaiting_confirmation">>

\* The handlers below give the conversation after the handler ran, as
\* [state, executed, keyboards, threw]: state is the user's entry of
\* userStates (<<>>: none), executed the searchData executeSearch was
\* invoked with (<<>>: not invoked), keyboards the inline keyboards sent,
\* threw tells a TypeError left the handler.
Outcome(state, exec, keys, threw) ==
  [state |-> state, executed |-> exec, keyboards |-> keys, threw |-> threw]

handleFromInput(text, location, state) ==
  LET airportCode == IF location # "none" THEN getAirportFromLocation(location)
                     ELSE extractAirportCode(Characters[text], FALSE)
  IN IF airportCode = <<>> THEN Outcome(<<state>>, <<>>, {}, FALSE)
     ELSE Outcome(<<[step |-> "awaiting_to",
                     searchData |-> [state.searchData EXCEPT !.from = airportCode[1]]]>>,
                  <<>>, {}, FALSE)

handleToInput(text, state) ==
  LET airportCode == extractAirportCode(Characters[text], FALSE)
  IN IF airportCode = <<>> THEN Outcome(<<state>>, <<>>, {}, FALSE)
     ELSE IF airportCode[1] = state.searchData.from THEN Outcome(<<state>>, <<>>, {}, FALSE)
     ELSE Outcome(<<[step |-> "awaiting_date",
                     searchData |-> [state.searchData EXCEPT !.to = airportCode[1]]]>>,
                  <<>>, {}, FALSE)

handleDateInput(date, state) ==
  IF date < Today THEN Outcome(<<state>>, <<>>, {}, FALSE)
  ELSE IF date > Today + DaysPerYear THEN Outcome(<<state>>, <<>>, {}, FALSE)
  ELSE Outcome(<<[step |-> "awaiting_passengers",
                  searchData |-> [state.searchData EXCEPT !.date = date]]>>,
               <<>>, {"passengers"}, FALSE)

\* state is <<>> when the caller found no entry in userStates
handlePassengersInput(text, state) ==
  IF text = "custom" THEN Outcome(state, <<>>, {}, FALSE)
  ELSE LET match == matchPassengers(text)
           parsed == parseInt(text)
           valid == match # <<>> \/ (parsed # NaN /\ parsed >= 1 /\ parsed <= 9)
           passengers == IF match # <<>> THEN match[1] ELSE parsed
       IN IF ~valid THEN Outcome(state, <<>>, {}, FALSE)
          ELSE IF state = <<>> THEN Outcome(state, <<>>, {}, TRUE)
          ELSE Outcome(<<[step |-> "awaiting_confirmation",
                          searchData |-> [state[1].searchData EXCEPT
                                            !.passengers = passengers,
                                            !.currency = "ZAR"]]>>,
                       <<>>, {"confirmation"}, FALSE)

handleConfirmation(text, state) ==
  IF text = "confirm_search"
  THEN IF state = <<>> THEN Outcome(state, <<>>, {}, TRUE)
       ELSE Outcome(<<>>, <<state[1].searchData>>, {}, FALSE)
  ELSE IF text = "edit_search"
  THEN IF state = <<>> THEN Outcome(state, <<>>, {}, TRUE)
       ELSE Outcome(<<[state[1] EXCEPT !.step = "awaiting_from"]>>, <<>>, {}, FALSE)
  ELSE Outcome(state, <<>>, {}, FALSE)

startSearchConversation ==
  Outcome(<<[step |-> "awaiting_from", searchData |-> EmptySearchData]>>, <<>>, {}, FALSE)

PopularRoutes == { << <<"J", "N", "B">>, <<"C", "P", "T">> >> }

executeQuickSearch(from, to) ==
  Outcome(userStates,
          <<[from |-> from, to |-> to, date |-> Today + 1, passengers |-> 1,
             currency |-> "ZAR"]>>,
          {}, FALSE)

\* the conversation takes the outcome of a handler
Take(o) ==
  /\ userStates' = o.state
  /\ executed' = IF o.executed # <<>> THEN o.executed ELSE executed
  /\ keyboards' = keyboards \cup o.keyboards

chatFrame == <<pc, req, result, err, queries, outcomes, ttlUsed, recent, cache,
               redisUp, initialized, now, fnIn, fnOut, fnOp, rateVars, retry>>

\* /start: the main menu with its Search Flights and Popular Routes buttons
HandleStart ==
  /\ "menu" \notin keyboards
  /\ keyboards' = keyboards \cup {"menu"}
  /\ UNCHANGED <<userStates, executed, chatFrame>>

\* /search
HandleSearch ==
  /\ Take(startSearchConversation)
  /\ UNCHANGED chatFrame

\* lines 307-345: a message of the user while a conversation is open.  A
\* rejected sendMessage lands in the catch, which resets the conversation
\* unless its own sendMessage is rejected as well.
HandleSearchStep(text, location) ==
  /\ userStates # <<>>
  /\ LET state == userStates[1]
         o == CASE state.step = "awaiting_from" -> {handleFromInput(text, location, state)}
                [] state.step = "awaiting_to" -> {handleToInput(text, state)}
                [] state.step = "awaiting_date" ->
                     {handleDateInput(d, state) : d \in parseNaturalDate(text)}
                [] state.step = "awaiting_passengers" -> {handlePassengersInput(text, <<state>>)}
                [] state.step = "awaiting_confirmation" -> {handleConfirmation(text, <<state>>)}
     IN \E out \in o, delivered \in BOOLEAN :
          IF delivered THEN Take(out)
          ELSE /\ userStates' \in {out.state, <<>>}
               /\ executed' = IF out.executed # <<>> THEN out.executed ELSE executed
               /\ UNCHANGED keyboards
  /\ UNCHANGED chatFrame

\* the callback data of the buttons the bot sends, split at the colons
CallbackData ==
  {<<"quick_search_menu">>, <<"show_popular">>, <<"passengers", "2">>,
   <<"passengers", "custom">>, <<"confirm_search">>, <<"edit_search">>}
  \cup {<<"quick_search", r[1], r[2]>> : r \in PopularRoutes}

\* the keyboard a button belongs to
KeyboardOf(data) ==
  CASE data[1] \in {"quick_search_menu", "show_popular"} -> "menu"
    [] data[1] = "passengers" -> "passengers"
    [] data[1] \in {"confirm_search", "edit_search"} -> "confirmation"
    [] data[1] = "quick_search" -> "popular"

\* lines 976-1049: the user presses a button of a keyboard the bot has sent,
\* however long ago.  A TypeError lands in the catch and changes nothing.
HandleCallbackQuery(data) ==
  /\ KeyboardOf(data) \in keyboards
  /\ LET action == data[1]
         o == CASE action = "quick_search_menu" -> startSearchConversation
                [] action = "show_popular" -> Outcome(userStates, <<>>, {"popular"}, FALSE)
                [] action = "passengers" ->
                     handlePassengersInput(
                       IF data[2] = "2" THEN "passengers:2" ELSE "passengers:custom",
                       userStates)
                [] action = "confirm_search" -> handleConfirmation("confirm_search", userStates)
                [] action = "edit_search" -> handleConfirmation("edit_search", userStates)
                [] action = "quick_search" -> executeQuickSearch(data[2], data[3])
     IN Take(o)
  /\ UNCHANGED chatFrame

NextChat ==
  \/ HandleStart
  \/ HandleSearch
  \/ \E text \in ChatTexts, location \in Locations : HandleSearchStep(text, location)
  \/ \E data \in CallbackData : HandleCallbackQuery(data)

SpecChat == Init /\ [][NextChat]_vars

StepNumber(step) == CHOOSE i \in 1..5 : Steps[i] = step

\* C25: executeSearch is only invoked with search data in which origin,
\* destination, date and passenger count are set and the destination is not
\* the origin; and the step of a conversation moves from each step to the
\* next only, or from the confirmation back to awaiting_from (a conversation
\* started anew begins at awaiting_from with empty search data).
C25_CompleteSearchesInOrder ==
  /\ [](executed # <<>> =>
          LET searchData == executed[1]
          IN /\ searchData.from # <<>> /\ searchData.to # <<>>
             /\ searchData.date # Undefined /\ searchData.passengers # Undefined
             /\ searchData.to # searchData.from)
  /\ [][(userStates # <<>> /\ userStates' # <<>>
         /\ userStates'[1].step # userStates[1].step)
        => \/ StepNumber(userStates'[1].step) = StepNumber(userStates[1].step) + 1
           \/ /\ userStates[1].step = "awaiting_confirmation"
              /\ userStates'[1].step = "awaiting_from"
           \/ userStates'[1] = [step |-> "awaiting_from", searchData |-> EmptySearchData]]_vars

-----------------------------------------------------------------------------
(* RedisClient.rateLimit: callers that share one key, with Redis reachable.
   Each Redis command is one step; the callers interleave between them. *)

MaxRateCalls == 4
RateWindowMs == 2
RateMaxRequests == 2

rateFrame == <<pc, req, result, err, queries, outcomes, ttlUsed, recent, cache,
               redisUp, initialized, now, fnIn, fnOut, fnOp, chatVars, retry>>

\* lines 1504-1505: const now = Date.now()
RateLimitBegin(c) ==
  /\ limiter[c].pc = "idle"
  /\ rateCalls < MaxRateCalls
  /\ rateCalls' = rateCalls + 1
  /\ limiter' = [limiter EXCEPT ![c] = [pc |-> "trim", now |-> clockMs, currentRequests |-> 0]]
  /\ UNCHANGED <<zset, zsetExpiry, clockMs, grants, rateFrame>>

\* line 1508: zRemRangeByScore(key, 0, windowStart), both ends inclusive
RateLimitTrim(c) ==
  /\ limiter[c].pc = "trim"
  /\ LET windowStart == limiter[c].now - RateWindowMs
     IN zset' = {member \in zset : ~(0 <= member /\ member <= windowStart)}
  /\ limiter' = [limiter EXCEPT ![c].pc = "count"]
  /\ UNCHANGED <<zsetExpiry, clockMs, grants, rateCalls, rateFrame>>

\* lines 1511-1524: zCard, and the refusal when the count has reached
\* maxRequests (zRange reads only)
RateLimitCount(c) ==
  /\ limiter[c].pc = "count"
  /\ LET currentRequests == Cardinality(zset)
     IN limiter' = [limiter EXCEPT ![c] =
                      [pc |-> IF currentRequests >= RateMaxRequests THEN "idle" ELSE "add",
                       now |-> @.now, currentRequests |-> currentRequests]]
  /\ UNCHANGED <<zset, zsetExpiry, clockMs, grants, rateCalls, rateFrame>>

\* line 1528: zAdd(key, {score: now, value: now.toString()}); the member is
\* the instant as text, so a second request of the same millisecond is the
\* member that is there already
RateLimitAdd(c) ==
  /\ limiter[c].pc = "add"
  /\ zset' = zset \cup {limiter[c].now}
  /\ limiter' = [limiter EXCEPT ![c].pc = "expire"]
  /\ UNCHANGED <<zsetExpiry, clockMs, grants, rateCalls, rateFrame>>

\* lines 1529-1536: expire(key, Math.ceil(windowMs / 1000)) seconds, then the
\* answer allowed: true
RateLimitExpire(c) ==
  /\ limiter[c].pc = "expire"
  /\ zsetExpiry' = clockMs + CeilDiv(RateWindowMs, 1000) * 1000
  /\ grants' = [grants EXCEPT ![limiter[c].now] = @ + 1]
  /\ limiter' = [limiter EXCEPT ![c].pc = "idle"]
  /\ UNCHANGED <<zset, clockMs, rateCalls, rateFrame>>

\* a millisecond passes; Redis drops the key at its expiry
RateTick ==
  /\ clockMs < MaxRateClock
  /\ clockMs' = clockMs + 1
  /\ IF zsetExpiry # Undefined /\ zsetExpiry <= clockMs + 1
     THEN zset' = {} /\ zsetExpiry' = Undefined
     ELSE UNCHANGED <<zset, zsetExpiry>>
  /\ UNCHANGED <<limiter, grants, rateCalls, rateFrame>>

NextRate ==
  \/ \E c \in RateCallers : RateLimitBegin(c)
  \/ \E c \in RateCallers : RateLimitTrim(c)
  \/ \E c \in RateCallers : RateLimitCount(c)
  \/ \E c \in RateCallers : RateLimitAdd(c)
  \/ \E c \in RateCallers : RateLimitExpire(c)
  \/ RateTick

SpecRate == Init /\ [][NextRate]_vars

RECURSIVE GrantsWithin(_)
GrantsWithin(instants) ==
  IF instants = {} THEN 0
  ELSE LET t == CHOOSE t \in instants : TRUE
       IN grants[t] + GrantsWithin(instants \ {t})

\* C26: with Redis reachable, the calls for one key made within any window
\* of windowMs milliseconds that were answered allowed: true are at most
\* maxRequests, however the callers interleave.
C26_AtMostMaxRequests ==
  \A t \in RateInstants :
    GrantsWithin({u \in RateInstants : t - RateWindowMs < u /\ u <= t}) <= RateMaxRequests

-----------------------------------------------------------------------------
(* Helpers.retryWithBackoff *)

MaxRetries == 4
RetryChoices == 0..MaxRetries
BaseDelays == {0, 500, 1000}
\* what fn resolves with and what it rejects with
RetryValues == {"a", "b"}
RetryErrors == {"e1", "e2"}

RECURSIVE Pow2(_)
Pow2(n) == IF n = 0 THEN 1 ELSE 2 * Pow2(n - 1)

retryFrame == <<pc, req, result, err, queries, outcomes, ttlUsed, recent, cache,
                redisUp, initialized, now, fnIn, fnOut, fnOp, chatVars, rateVars>>

\* the loop condition of line 57 at the given attempt: on to fn(), or past
\* the loop to the end of the function (undefined)
LoopAt(call, attempt) ==
  IF attempt < call.maxRetries
  THEN [call EXCEPT !.pc = "invoke", !.attempt = attempt]
  ELSE [call EXCEPT !.pc = "returned", !.attempt = attempt, !.value = "undefined"]

\* a caller starts retryWithBackoff(fn, maxRetries, baseDelay)
RetryWithBackoff(maxRetries, baseDelay) ==
  /\ retry.pc \in {"idle", "returned", "threw"}
  /\ retry' = LoopAt([RetryIdle EXCEPT !.maxRetries = maxRetries, !.baseDelay = baseDelay], 0)
  /\ UNCHANGED <<chatVars, rateVars, retryFrame>>

\* line 59: fn() resolves
RetryResolves(value) ==
  /\ retry.pc = "invoke"
  /\ retry' = [retry EXCEPT !.pc = "returned", !.value = value,
                            !.history = Append(@, [ok |-> TRUE, payload |-> value])]
  /\ UNCHANGED <<chatVars, rateVars, retryFrame>>

\* the variant that sleeps after the last attempt as well and falls out of
\* the loop
RetryRejects_neverRethrows(error) ==
  /\ retry.pc = "invoke"
  /\ retry' = [retry EXCEPT
                 !.pc = "sleep",
                 !.delays = Append(@, retry.baseDelay * Pow2(retry.attempt)),
                 !.history = Append(@, [ok |-> FALSE, payload |-> error])]
  /\ UNCHANGED <<chatVars, rateVars, retryFrame>>

\* lines 60-63: fn() rejects or throws
RetryRejects(error) ==
  /\ retry.pc = "invoke"
  /\ retry' = IF retry.attempt = retry.maxRetries - 1
              THEN [retry EXCEPT !.pc = "threw", !.error = error,
                                 !.history = Append(@, [ok |-> FALSE, payload |-> error])]
              ELSE [retry EXCEPT
                      !.pc = "sleep",
                      !.delays = Append(@, retry.baseDelay * Pow2(retry.attempt)),
                      !.history = Append(@, [ok |-> FALSE, payload |-> error])]
  /\ UNCHANGED <<chatVars, rateVars, retryFrame>>

\* line 63 and the loop header: the timer of sleep fires, attempt++
RetrySleepEnds ==
  /\ retry.pc = "sleep"
  /\ retry' = LoopAt(retry, retry.attempt + 1)
  /\ UNCHANGED <<chatVars, rateVars, retryFrame>>

NextRetry ==
  \/ \E maxRetries \in RetryChoices, baseDelay \in BaseDelays :
       RetryWithBackoff(maxRetries, baseDelay)
  \/ \E value \in RetryValues : RetryResolves(value)
  \/ \E error \in RetryErrors : RetryRejects(error)
  \/ RetrySleepEnds

\* fn settles and timers fire
SpecRetry ==
  /\ Init
  /\ [][NextRetry]_vars
  /\ WF_vars(\E value \in RetryValues : RetryResolves(value))
  /\ WF_vars(\E error \in RetryErrors : RetryRejects(error))
  /\ WF_vars(RetrySleepEnds)

\* C30: with maxRetries at least 1, retryWithBackoff comes to an end, having
\* invoked fn at most maxRetries times; only the last invocation can have
\* succeeded, and then the call returns its result; when the call throws,
\* all maxRetries invocations failed and it throws the error of the last;
\* the k-th sleep is of baseDelay * 2^(k-1).
C30_TerminatesWithinMaxRetries ==
  /\ [](retry.maxRetries >= 1 =>
          /\ Len(retry.history) <= retry.maxRetries
          /\ \A k \in 1..(Len(retry.history) - 1) : ~retry.history[k].ok
          /\ retry.pc = "returned" =>
               /\ Last(retry.history).ok
               /\ retry.value = Last(retry.history).payload
          /\ retry.pc = "threw" =>
               /\ Len(retry.history) = retry.maxRetries
               /\ ~Last(retry.history).ok
               /\ retry.error = Last(retry.history).payload
          /\ retry.pc \in {"invoke", "sleep"} =>
               \A k \in 1..Len(retry.history) : ~retry.history[k].ok
          /\ \A k \in 1..Len(retry.delays) :
               retry.delays[k] = retry.baseDelay * Pow2(k - 1))
  /\ [](retry.pc \in {"invoke", "sleep"} => <>(retry.pc \in {"returned", "threw"}))

\* three failed invocations with sleeps of 1000 and 2000 in between, then
\* the error of the third
C30_Witness ==
  /\ retry.pc = "threw"
  /\ retry.maxRetries = 3
  /\ retry.baseDelay = 1000
  /\ Len(retry.history) = 3
  /\ retry.delays = <<1000, 2000>>
  /\ retry.history[1].payload # retry.history[3].payload
  /\ retry.error = retry.history[3].payload

====
